---- MODULE Spec2Model ----
(***************************************************************************)
(* GoTogether: the auto-grouping dispatcher for railway-station ride       *)
(* requests (backend/app/utils/auto_grouping.py), the driver fairness      *)
(* queue, and the accept / reject / cancel handlers that move requests,    *)
(* groups and notifications through their statuses.                        *)
(*                                                                         *)
(* The store is the committed content of the ride_requests, grouped_rides, *)
(* ride_notifications and drivers tables. Rows are kept in insertion       *)
(* order; a row's id is its index, and 0 stands for NULL.                  *)
(***************************************************************************)
EXTENDS Integers, Sequences, FiniteSets, TLC

VARIABLES
    requests,         \* ride_requests rows
    groups,           \* grouped_rides rows
    notifs,           \* ride_notifications rows
    drivers,          \* drivers rows, by driver id
    last_assigned_at, \* history: rank of each driver's latest assignment (0 = never)
    last,             \* history: the latest handler call and what it returned
    pc,               \* per worker: position inside create_ride_request
    sess,             \* per worker: the SQLAlchemy session's uncommitted view
    query,            \* the TripQuery of the latest trip search
    candidates,       \* the TripCandidate list handed to find_matching_trips
    matches,          \* the TripMatch list it returned
    earlier,          \* history: what the calls before the latest one returned
    args,             \* the arguments of a call of one of the matching helpers
    result,           \* what that call returned: <<>> before it returns
    trips,            \* trips rows: the trips drivers offer
    trip_members      \* trip_members rows: the requests to join a trip

rankVars == <<query, candidates, matches, earlier, args, result>>

tripVars == <<trips, trip_members>>

vars == <<requests, groups, notifs, drivers, last_assigned_at, last, pc, sess,
          query, candidates, matches, earlier, args, result, trips, trip_members>>

(***************************************************************************)
(* Bounds and input domains                                                *)
(***************************************************************************)
MaxRequests == 2

Users == {"u1", "u2"}
DriverIds == {"d1", "d2"}
Workers == {"w1", "w2"}
NoDriver == "none"

(***************************************************************************)
(* Program constants                                                       *)
(***************************************************************************)
TotalSeats == 4
TimeWindowHours == 6

(***************************************************************************)
(* Helpers                                                                 *)
(***************************************************************************)
Max(a, b) == IF a >= b THEN a ELSE b

Lower(c) == IF c = "S" THEN "s" ELSE IF c = "R" THEN "r" ELSE c

ToLower(s) == [i \in 1..Len(s) |-> Lower(s[i])]

Contains(hay, needle) ==
    \E i \in 0..(Len(hay) - Len(needle)) :
        SubSeq(hay, i + 1, i + Len(needle)) = needle

\* s LIKE pattern: in a pattern "%" stands for any run of characters and "_"
\* for any one character
RECURSIVE Like(_, _)
Like(s, pattern) ==
    IF pattern = <<>> THEN s = <<>>
    ELSE IF Head(pattern) = "%"
         THEN Like(s, Tail(pattern)) \/ (s # <<>> /\ Like(Tail(s), pattern))
         ELSE /\ s # <<>>
              /\ Head(pattern) \in {"_", Head(s)}
              /\ Like(Tail(s), Tail(pattern))

\* column.ilike(f"%{needle}%"): the needle is part of the pattern as it is
ILike(hay, needle) == Like(ToLower(hay), <<"%">> \o ToLower(needle) \o <<"%">>)

Ids(table) == 1..Len(table)

(***************************************************************************)
(* auto_grouping.py                                                        *)
(***************************************************************************)

\* grouped_ride.ride_requests: every request row whose foreign key is g
RideRequestsOf(reqs, g) == {r \in Ids(reqs) : reqs[r].grouped_ride_id = g}

calculate_available_seats_counting_accepted(reqs, grp, g) ==
    Max(0, grp.total_seats
           - Cardinality({r \in RideRequestsOf(reqs, g) : reqs[r].status = "accepted"}))

calculate_available_seats(reqs, grp, g) ==
    Max(0, grp.total_seats - Cardinality(RideRequestsOf(reqs, g)))

\* the filter of find_matching_railway_station_trip
MatchingTrips(grps, destination_address, requested_time) ==
    {g \in Ids(grps) :
        /\ grps[g].is_railway_station_trip
        /\ ILike(grps[g].destination_address, destination_address)
        /\ grps[g].pickup_time >= requested_time - TimeWindowHours
        /\ grps[g].pickup_time <= requested_time + TimeWindowHours
        /\ grps[g].status \in {"pending_acceptance", "confirmed"}}

find_matching_railway_station_trip_ignoring_seats(reqs, grps, destination_address, requested_time) ==
    LET open == MatchingTrips(grps, destination_address, requested_time)
    IN  IF open = {} THEN {0} ELSE open

\* The query has no ORDER BY, so any matching trip with a free seat may be
\* the first one the loop meets. {0} stands for None.
find_matching_railway_station_trip(reqs, grps, destination_address, requested_time) ==
    LET open == {g \in MatchingTrips(grps, destination_address, requested_time) :
                    calculate_available_seats(reqs, grps[g], g) > 0}
    IN  IF open = {} THEN {0} ELSE open

EligibleIgnoringAvailability(d) == d.is_active /\ d.is_verified

Eligible(d) ==
    d.is_active /\ d.is_verified /\ d.availability_status = "available"

\* ORDER BY updated_at ASC: PostgreSQL puts NULL (0 here) last
UpdatedBefore(a, b) ==
    IF a.updated_at = 0 THEN FALSE
    ELSE IF b.updated_at = 0 THEN TRUE
    ELSE a.updated_at < b.updated_at

ComesBefore(a, b) ==
    \/ a.assigned_rides_count < b.assigned_rides_count
    \/ /\ a.assigned_rides_count = b.assigned_rides_count
       /\ UpdatedBefore(a, b)

get_next_available_driver_unordered(ds) ==
    LET pool == {d \in DriverIds : Eligible(ds[d])}
    IN  IF pool = {} THEN {NoDriver} ELSE pool

\* The possible results of .first(): the drivers no eligible driver precedes.
\* {NoDriver} stands for None.
get_next_available_driver(ds) ==
    LET pool == {d \in DriverIds : Eligible(ds[d])}
        firsts == {d \in pool : \A e \in pool : ~ComesBefore(ds[e], ds[d])}
    IN  IF pool = {} THEN {NoDriver} ELSE firsts

\* The timestamps are kept as dense ranks 1..k: only their order is read.
Touch(stamp, d) ==
    LET k == Cardinality({e \in DOMAIN stamp : stamp[e] > 0})
        old == stamp[d]
    IN  [e \in DOMAIN stamp |->
            IF e = d THEN (IF old = 0 THEN k + 1 ELSE k)
            ELSE IF old > 0 /\ stamp[e] > old THEN stamp[e] - 1
            ELSE stamp[e]]

\* BaseModel.updated_at is set by every UPDATE of the row
TouchUpdatedAt(ds, d) ==
    LET stamp == Touch([e \in DriverIds |-> ds[e].updated_at], d)
    IN  [e \in DriverIds |-> [ds[e] EXCEPT !.updated_at = stamp[e]]]

NewGroupedRide(driver, req) ==
    [driver_id |-> driver,
     destination_address |-> req.destination_address,
     pickup_time |-> req.requested_time,
     total_seats |-> TotalSeats,
     is_railway_station_trip |-> TRUE,
     auto_created |-> TRUE,
     status |-> "pending_acceptance"]

NewRideNotification(user, g) ==
    [user_id |-> user, grouped_ride_id |-> g,
     notification_type |-> "ride_assignment", status |-> "pending"]

add_to_existing_trip_without_notification(reqs, nts, r, g, seats) ==
    IF seats <= 0
    THEN [ok |-> FALSE, requests |-> reqs, notifs |-> nts]
    ELSE [ok |-> TRUE,
          requests |-> [reqs EXCEPT ![r].grouped_ride_id = g, ![r].status = "grouped"],
          notifs |-> nts]

\* add_to_existing_trip. `seats` is what calculate_available_seats returned.
add_to_existing_trip(reqs, nts, r, g, seats) ==
    IF seats <= 0
    THEN [ok |-> FALSE, requests |-> reqs, notifs |-> nts]
    ELSE [ok |-> TRUE,
          requests |-> [reqs EXCEPT ![r].grouped_ride_id = g, ![r].status = "grouped"],
          notifs |-> Append(nts, NewRideNotification(reqs[r].user_id, g))]

create_railway_station_trip_without_driver_check(grps, ds, req, driver) ==
    [ok |-> TRUE,
     groups |-> Append(grps, NewGroupedRide(driver, req)),
     drivers |-> IF driver = NoDriver THEN ds
                 ELSE TouchUpdatedAt(
                          [ds EXCEPT ![driver].assigned_rides_count = @ + 1], driver)]

create_railway_station_trip_without_increment(grps, ds, req, driver) ==
    IF driver = NoDriver
    THEN [ok |-> FALSE, groups |-> grps, drivers |-> ds]
    ELSE [ok |-> TRUE,
          groups |-> Append(grps, NewGroupedRide(driver, req)),
          drivers |-> ds]

\* create_railway_station_trip with the driver .first() returned
create_railway_station_trip(grps, ds, req, driver) ==
    IF driver = NoDriver
    THEN [ok |-> FALSE, groups |-> grps, drivers |-> ds]
    ELSE [ok |-> TRUE,
          groups |-> Append(grps, NewGroupedRide(driver, req)),
          drivers |-> TouchUpdatedAt(
              [ds EXCEPT ![driver].assigned_rides_count = @ + 1], driver)]

Unchanged(reqs, grps, nts, ds, outcome, g) ==
    [requests |-> reqs, groups |-> grps, notifs |-> nts, drivers |-> ds,
     grouped_ride |-> 0, outcome |-> outcome, driver |-> NoDriver, selected |-> g]

\* auto_group_railway_station_request run by one session with nothing
\* else in flight: the set of its possible results.
auto_group_railway_station_request(reqs, grps, nts, ds, r) ==
    LET req == reqs[r]
        found == find_matching_railway_station_trip(
                     reqs, grps, req.destination_address, req.requested_time)
        attach(g) ==
            LET res == add_to_existing_trip(
                           reqs, nts, r, g, calculate_available_seats(reqs, grps[g], g))
            IN  IF res.ok
                THEN [requests |-> res.requests, groups |-> grps,
                      notifs |-> res.notifs, drivers |-> ds,
                      grouped_ride |-> g, outcome |-> "added_to_existing",
                      driver |-> NoDriver, selected |-> g]
                ELSE Unchanged(reqs, grps, nts, ds, "no_seats_available", g)
        create(driver) ==
            LET made == create_railway_station_trip(grps, ds, req, driver)
                g == Len(made.groups)
                res == add_to_existing_trip(
                           reqs, nts, r, g,
                           calculate_available_seats(reqs, made.groups[g], g))
            IN  IF made.ok
                THEN [requests |-> res.requests, groups |-> made.groups,
                      notifs |-> res.notifs, drivers |-> made.drivers,
                      grouped_ride |-> g, outcome |-> "new_trip_created",
                      driver |-> driver, selected |-> 0]
                ELSE Unchanged(reqs, grps, nts, ds, "no_driver_available", 0)
    IN  IF found # {0}
        THEN {attach(g) : g \in found}
        ELSE {create(driver) : driver \in get_next_available_driver(ds)}

(***************************************************************************)
(* utils/matching.py                                                       *)
(*                                                                         *)
(* Locations lie on one meridian, where the haversine distance is          *)
(* proportional to the difference of latitude: a latitude is counted in    *)
(* steps of one distance unit. Times are counted in half minutes, so that  *)
(* a difference need not be a whole number of minutes. A score is kept as  *)
(* its numerator over ScoreScale(query).                                   *)
(***************************************************************************)
Abs(x) == IF x >= 0 THEN x ELSE -x

Min(a, b) == IF a <= b THEN a ELSE b

Location(lat) == [lat |-> lat, lng |-> 0]

haversine_distance(loc1, loc2) == Abs(loc2.lat - loc1.lat)

\* the scale of driver_rating: rating_score = candidate.driver_rating / 5.0
MaxRating == 5

\* 1.0 on the scale of match_score: the common denominator of the three terms
ScoreScale(q) == 50 * (q.max_origin_distance + q.max_dest_distance) * q.time_window_minutes

calculate_match_score_without_time(q, candidate, origin_distance, dest_distance, time_diff_minutes) ==
    LET max_total_distance == q.max_origin_distance + q.max_dest_distance
        actual_total_distance == origin_distance + dest_distance
        distance_score == 25 * q.time_window_minutes
                             * Max(0, max_total_distance - actual_total_distance)
        rating_score == 2 * candidate.driver_rating
                          * max_total_distance * q.time_window_minutes
    IN  Min(ScoreScale(q), Max(0, distance_score + rating_score))

calculate_match_score_unclamped(q, candidate, origin_distance, dest_distance, time_diff_minutes) ==
    LET max_total_distance == q.max_origin_distance + q.max_dest_distance
        actual_total_distance == origin_distance + dest_distance
    IN  25 * q.time_window_minutes * (max_total_distance - actual_total_distance)
          + 15 * max_total_distance * (q.time_window_minutes - Abs(time_diff_minutes))
          + 2 * candidate.driver_rating * max_total_distance * q.time_window_minutes

calculate_match_score(q, candidate, origin_distance, dest_distance, time_diff_minutes) ==
    LET max_total_distance == q.max_origin_distance + q.max_dest_distance
        actual_total_distance == origin_distance + dest_distance
        \* each term already carries its weight: 0.5, 0.3 and 0.2 of ScoreScale
        distance_score == 25 * q.time_window_minutes
                             * Max(0, max_total_distance - actual_total_distance)
        time_score == 15 * max_total_distance
                         * Max(0, q.time_window_minutes - Abs(time_diff_minutes))
        rating_score == 2 * candidate.driver_rating
                          * max_total_distance * q.time_window_minutes
        final_score == distance_score + time_score + rating_score
    IN  Min(ScoreScale(q), Max(0, final_score))

HasNoSeatsNever(candidate) == FALSE

\* if candidate.available_seats <= 0: continue
HasNoSeats(candidate) == candidate.available_seats <= 0

TooFarOnlyAtOrigin(q, origin_distance, dest_distance) ==
    origin_distance > q.max_origin_distance

\* the distance filter
TooFar(q, origin_distance, dest_distance) ==
    \/ origin_distance > q.max_origin_distance
    \/ dest_distance > q.max_dest_distance

\* abs(total_seconds() / 60), in half minutes
TimeDiff(q, candidate) == Abs(candidate.departure_time - q.departure_time)

\* time_diff > query.time_window_minutes, both in half minutes
OutsideTimeWindow(q, time_diff) == time_diff > 2 * q.time_window_minutes

\* int(time_diff): whole minutes, the fraction dropped
WholeMinutes(time_diff) == time_diff \div 2

TripMatch(q, candidate) ==
    LET origin_distance == haversine_distance(q.origin, candidate.origin)
        dest_distance == haversine_distance(q.destination, candidate.destination)
        time_diff == TimeDiff(q, candidate)
    IN  [candidate |-> candidate,
         origin_distance |-> origin_distance,
         dest_distance |-> dest_distance,
         time_difference_minutes |-> WholeMinutes(time_diff),
         match_score |-> calculate_match_score(
             q, candidate, origin_distance, dest_distance, WholeMinutes(time_diff))]

\* the loop over the candidates: the matches in the order of the input
RECURSIVE CollectMatches(_, _)
CollectMatches(q, cs) ==
    IF cs = <<>> THEN <<>>
    ELSE LET candidate == Head(cs)
             rest == CollectMatches(q, Tail(cs))
             origin_distance == haversine_distance(q.origin, candidate.origin)
             dest_distance == haversine_distance(q.destination, candidate.destination)
         IN  IF HasNoSeats(candidate) THEN rest
             ELSE IF TooFar(q, origin_distance, dest_distance) THEN rest
             ELSE IF OutsideTimeWindow(q, TimeDiff(q, candidate)) THEN rest
             ELSE <<TripMatch(q, candidate)>> \o rest

\* where list.sort(reverse=True) leaves m among the already sorted ms that
\* came before it in the input: after every match with a score at least as high
InsertByScore(ms, m) ==
    LET k == Cardinality({i \in 1..Len(ms) : ms[i].match_score >= m.match_score})
    IN  SubSeq(ms, 1, k) \o <<m>> \o SubSeq(ms, k + 1, Len(ms))

\* matches.sort(key=lambda x: x.match_score, reverse=True): a stable sort
RECURSIVE SortByScore(_)
SortByScore(ms) ==
    IF ms = <<>> THEN <<>>
    ELSE InsertByScore(SortByScore(SubSeq(ms, 1, Len(ms) - 1)), ms[Len(ms)])

find_matching_trips(q, cs) == SortByScore(CollectMatches(q, cs))

\* no trip search has been made
NoQuery == [origin |-> Location(0), destination |-> Location(0), departure_time |-> 0,
            max_origin_distance |-> 1, max_dest_distance |-> 1,
            time_window_minutes |-> 1]

NoSearch ==
    /\ query = NoQuery
    /\ candidates = <<>>
    /\ matches = <<>>
    /\ earlier = <<>>
    /\ args = <<>>
    /\ result = <<>>

NoTrips ==
    /\ trips = <<>>
    /\ trip_members = <<>>

(***************************************************************************)
(* Initial state: empty request, group and notification tables; the        *)
(* drivers an admin has registered and verified, none assigned yet.        *)
(***************************************************************************)
NoCall == [op |-> "none", req |-> 0, outcome |-> "none", grouped_ride |-> 0,
           driver |-> NoDriver, selected |-> 0]

IdleSession == [req |-> 0, trip |-> 0, seats |-> 0, driver |-> NoDriver,
                count |-> 0, outcome |-> "none"]

VerifiedDriver(rank) ==
    [is_active |-> TRUE, is_verified |-> TRUE, availability_status |-> "available",
     assigned_rides_count |-> 0, updated_at |-> rank]

Init ==
    /\ requests = <<>>
    /\ groups = <<>>
    /\ notifs = <<>>
    /\ drivers = [d \in DriverIds |-> VerifiedDriver(IF d = "d1" THEN 1 ELSE 2)]
    /\ last_assigned_at = [d \in DriverIds |-> 0]
    /\ last = NoCall
    /\ pc = [w \in Workers |-> "idle"]
    /\ sess = [w \in Workers |-> IdleSession]
    /\ NoTrips
    /\ NoSearch

(***************************************************************************)
(* routes/ride_requests.py, one call at a time                             *)
(***************************************************************************)
\* passenger_count is 1 when the body leaves it out
NewRideRequest(user, dest, time, rail) ==
    [user_id |-> user, destination_address |-> dest, requested_time |-> time,
     is_railway_station |-> rail, passenger_count |-> 1,
     status |-> "pending", grouped_ride_id |-> 0]

\* what the call for request r got back from auto_group_railway_station_request
Returned(r, res) ==
    [op |-> "autoGroup", req |-> r, outcome |-> res.outcome,
     grouped_ride |-> res.grouped_ride, driver |-> res.driver,
     selected |-> res.selected]

\* create_ride_request: insert and commit the request, then auto-group it
\* when it is a railway-station request, committing only if a group came back.
CreateRideRequestFor(user, dest, time, rail, passenger_count) ==
    /\ LET r == Len(requests) + 1
           reqs == Append(requests,
                          [NewRideRequest(user, dest, time, rail)
                               EXCEPT !.passenger_count = passenger_count])
       IN  IF rail
           THEN \E res \in auto_group_railway_station_request(
                               reqs, groups, notifs, drivers, r) :
                    /\ requests' = res.requests
                    /\ groups' = res.groups
                    /\ notifs' = res.notifs
                    /\ drivers' = res.drivers
                    /\ last_assigned_at' =
                           IF res.driver = NoDriver THEN last_assigned_at
                           ELSE Touch(last_assigned_at, res.driver)
                    /\ last' = Returned(r, res)
           ELSE /\ requests' = reqs
                /\ last' = [NoCall EXCEPT !.op = "create", !.req = r]
                /\ UNCHANGED <<groups, notifs, drivers, last_assigned_at>>
    /\ UNCHANGED <<pc, sess, rankVars, tripVars>>

\* create_ride_request with a body that leaves passenger_count out
CreateRideRequest(user, dest, time, rail) ==
    CreateRideRequestFor(user, dest, time, rail, 1)

\* .first() of a query without ORDER BY: any row that matches, or 0 for None
FirstRideRequest(reqs, user, g) ==
    LET rows == {r \in Ids(reqs) : reqs[r].user_id = user /\ reqs[r].grouped_ride_id = g}
    IN  IF rows = {} THEN {0} ELSE rows

\* what a handler other than create_ride_request answered: `id` is the row
\* the call named, `g` the group that row belongs to
Replied(op, id, code, g) ==
    [NoCall EXCEPT !.op = op, !.req = id, !.outcome = code, !.grouped_ride = g]

\* accept_ride_request (POST /api/ride-requests/{id}/accept) by the request's owner
AcceptRideRequest(r) ==
    /\ r \in Ids(requests)
    /\ LET g == requests[r].grouped_ride_id
           all_accepted ==
               \A x \in RideRequestsOf(requests, g) :
                   x = r \/ requests[x].status \in {"accepted", "cancelled"}
       IN  IF requests[r].status # "grouped"
           THEN /\ last' = Replied("accept_ride_request", r, "400", g)
                /\ UNCHANGED <<requests, groups>>
           ELSE /\ requests' = [requests EXCEPT ![r].status = "accepted"]
                /\ groups' = IF g # 0 /\ all_accepted
                             THEN [groups EXCEPT ![g].status = "confirmed"]
                             ELSE groups
                /\ last' = Replied("accept_ride_request", r, "200", g)
    /\ UNCHANGED <<notifs, drivers, last_assigned_at, pc, sess, rankVars, tripVars>>

CancelRideRequestWithoutStatusCheck(r) ==
    /\ r \in Ids(requests)
    /\ requests' = [requests EXCEPT ![r].status = "cancelled"]
    /\ last' = Replied("cancel_ride_request", r, "204", requests[r].grouped_ride_id)
    /\ UNCHANGED <<groups, notifs, drivers, last_assigned_at, pc, sess, rankVars, tripVars>>

\* cancel_ride_request (DELETE /api/ride-requests/{id}) by the request's owner
CancelRideRequest(r) ==
    /\ r \in Ids(requests)
    /\ IF requests[r].status # "pending"
       THEN /\ last' = Replied("cancel_ride_request", r, "400", requests[r].grouped_ride_id)
            /\ UNCHANGED requests
       ELSE /\ requests' = [requests EXCEPT ![r].status = "cancelled"]
            /\ last' = Replied("cancel_ride_request", r, "204", requests[r].grouped_ride_id)
    /\ UNCHANGED <<groups, notifs, drivers, last_assigned_at, pc, sess, rankVars, tripVars>>

(***************************************************************************)
(* routes/notifications.py                                                 *)
(***************************************************************************)
\* all(n.status == "accepted" for n in all_notifications)
AllAccepted(nts, g, n) ==
    \A m \in Ids(nts) :
        (nts[m].grouped_ride_id = g /\ nts[m].notification_type = "ride_assignment")
            => nts[m].status = "accepted"

\* accept_ride (PUT /api/notifications/{id}/accept) by the notification's recipient
AcceptRide(n) ==
    /\ n \in Ids(notifs)
    /\ LET g == notifs[n].grouped_ride_id
           nts == [notifs EXCEPT ![n].status = "accepted"]
       IN  IF notifs[n].status # "pending"
           THEN /\ last' = Replied("accept_ride", n, "400", g)
                /\ UNCHANGED <<requests, groups, notifs>>
           ELSE /\ notifs' = nts
                /\ \E r \in FirstRideRequest(requests, notifs[n].user_id, g) :
                       requests' = IF r = 0 THEN requests
                                   ELSE [requests EXCEPT ![r].status = "accepted"]
                /\ groups' = IF AllAccepted(nts, g, n)
                             THEN [groups EXCEPT ![g].status = "confirmed"]
                             ELSE groups
                /\ last' = Replied("accept_ride", n, "200", g)
    /\ UNCHANGED <<drivers, last_assigned_at, pc, sess, rankVars, tripVars>>

RejectRideWithoutStatusCheck(n) ==
    /\ n \in Ids(notifs)
    /\ LET g == notifs[n].grouped_ride_id
       IN  /\ notifs' = [notifs EXCEPT ![n].status = "rejected"]
           /\ \E r \in FirstRideRequest(requests, notifs[n].user_id, g) :
                  requests' = IF r = 0 THEN requests
                              ELSE [requests EXCEPT ![r].status = "rejected",
                                                    ![r].grouped_ride_id = 0]
           /\ last' = Replied("reject_ride", n, "200", g)
    /\ UNCHANGED <<groups, drivers, last_assigned_at, pc, sess, rankVars, tripVars>>

RejectRideCancellingGroup(n) ==
    /\ n \in Ids(notifs)
    /\ LET g == notifs[n].grouped_ride_id
       IN  IF notifs[n].status # "pending"
           THEN /\ last' = Replied("reject_ride", n, "400", g)
                /\ UNCHANGED <<requests, groups, notifs>>
           ELSE /\ notifs' = [notifs EXCEPT ![n].status = "rejected"]
                /\ \E r \in FirstRideRequest(requests, notifs[n].user_id, g) :
                       requests' = IF r = 0 THEN requests
                                   ELSE [requests EXCEPT ![r].status = "rejected",
                                                         ![r].grouped_ride_id = 0]
                /\ groups' = [groups EXCEPT ![g].status = "cancelled"]
                /\ last' = Replied("reject_ride", n, "200", g)
    /\ UNCHANGED <<drivers, last_assigned_at, pc, sess, rankVars, tripVars>>

RejectRideKeepingSeat(n) ==
    /\ n \in Ids(notifs)
    /\ LET g == notifs[n].grouped_ride_id
       IN  IF notifs[n].status # "pending"
           THEN /\ last' = Replied("reject_ride", n, "400", g)
                /\ UNCHANGED <<requests, notifs>>
           ELSE /\ notifs' = [notifs EXCEPT ![n].status = "rejected"]
                /\ \E r \in FirstRideRequest(requests, notifs[n].user_id, g) :
                       requests' = IF r = 0 THEN requests
                                   ELSE [requests EXCEPT ![r].status = "rejected"]
                /\ last' = Replied("reject_ride", n, "200", g)
    /\ UNCHANGED <<groups, drivers, last_assigned_at, pc, sess, rankVars, tripVars>>

\* reject_ride (PUT /api/notifications/{id}/reject) by the notification's recipient
RejectRide(n) ==
    /\ n \in Ids(notifs)
    /\ LET g == notifs[n].grouped_ride_id
       IN  IF notifs[n].status # "pending"
           THEN /\ last' = Replied("reject_ride", n, "400", g)
                /\ UNCHANGED <<requests, notifs>>
           ELSE /\ notifs' = [notifs EXCEPT ![n].status = "rejected"]
                /\ \E r \in FirstRideRequest(requests, notifs[n].user_id, g) :
                       requests' = IF r = 0 THEN requests
                                   ELSE [requests EXCEPT ![r].status = "rejected",
                                                         ![r].grouped_ride_id = 0]
                /\ last' = Replied("reject_ride", n, "200", g)
    /\ UNCHANGED <<groups, drivers, last_assigned_at, pc, sess, rankVars, tripVars>>

\* mark_notification_read (POST /api/notifications/{id}/mark-read) by the
\* notification's recipient: the status is overwritten whatever it was
MarkNotificationRead(n) ==
    /\ n \in Ids(notifs)
    /\ notifs' = [notifs EXCEPT ![n].status = "read"]
    /\ last' = Replied("mark_notification_read", n, "200", notifs[n].grouped_ride_id)
    /\ UNCHANGED <<requests, groups, drivers, last_assigned_at, pc, sess, rankVars, tripVars>>

(***************************************************************************)
(* routes/admin.py                                                         *)
(***************************************************************************)
Unset == "unset"

\* update_driver (PATCH /api/admin/drivers/{id}). The two flags arrive as
\* "true" or "false"; a parameter left out is Unset. The row is written, and updated_at moves, when any column changes;
\* verified_at and deactivated_at change whenever they are assigned.
UpdateDriver(d, is_verified, is_active, availability_status) ==
    LET row == drivers[d]
        v == IF is_verified = Unset THEN row.is_verified ELSE is_verified = "true"
        a == IF is_active = Unset THEN row.is_active ELSE is_active = "true"
        s == IF availability_status = Unset THEN row.availability_status
             ELSE availability_status
        dirty == \/ v # row.is_verified
                 \/ a # row.is_active
                 \/ s # row.availability_status
                 \/ is_verified = "true"
                 \/ is_active = "false"
        written == [drivers EXCEPT ![d].is_verified = v, ![d].is_active = a,
                                   ![d].availability_status = s]
    IN  /\ drivers' = IF dirty THEN TouchUpdatedAt(written, d) ELSE drivers
        /\ UNCHANGED <<requests, groups, notifs, last_assigned_at, last, pc, sess, rankVars, tripVars>>

\* the orders in which a query without ORDER BY may return the rows ids
Orders(ids) ==
    {order \in [1..Cardinality(ids) -> ids] : \A r \in ids : \E i \in DOMAIN order : order[i] = r}

\* merge_requests_to_trip (POST /api/admin/trips/{id}/merge) for an existing
\* trip g and existing requests: refused unless every request is pending;
\* otherwise every request is attached to the trip and its user notified
MergeRequestsToTrip(g, ride_request_ids) ==
    /\ IF \E r \in ride_request_ids : requests[r].status # "pending"
       THEN /\ last' = Replied("merge_requests_to_trip", g, "400", g)
            /\ UNCHANGED <<requests, notifs>>
       ELSE \E order \in Orders(ride_request_ids) :
                /\ requests' = [r \in Ids(requests) |->
                                    IF r \in ride_request_ids
                                    THEN [requests[r] EXCEPT !.grouped_ride_id = g,
                                                             !.status = "grouped"]
                                    ELSE requests[r]]
                /\ notifs' = notifs \o [i \in 1..Len(order) |->
                                            NewRideNotification(requests[order[i]].user_id, g)]
                /\ last' = Replied("merge_requests_to_trip", g, "200", g)
    /\ UNCHANGED <<groups, drivers, last_assigned_at, pc, sess, rankVars, tripVars>>

(***************************************************************************)
(* routes/admin_rides.py                                                   *)
(***************************************************************************)
\* update_grouped_ride (PUT /api/admin/rides/grouped-rides/{id}): every field
\* the body sets is written to the row as it is. pickup_time is <<>> when
\* the body leaves it out, status is Unset; the other fields are left out.
UpdateGroupedRide(g, pickup_time, status) ==
    /\ groups' = [groups EXCEPT
                      ![g].pickup_time = IF pickup_time = <<>> THEN @ ELSE pickup_time[1],
                      ![g].status = IF status = Unset THEN @ ELSE status]
    /\ last' = Replied("update_grouped_ride", g, "200", g)
    /\ UNCHANGED <<requests, notifs, drivers, last_assigned_at, pc, sess, rankVars, tripVars>>

(***************************************************************************)
(* Spec: the handlers called one at a time                                 *)
(***************************************************************************)
\* what a request asks for: destination, time, railway-station flag
RequestKinds ==
    {<<(<<"s">>), 0, TRUE>>, <<(<<"S", "r">>), 6, TRUE>>,
     <<(<<"s">>), 13, TRUE>>, <<(<<"s">>), 0, FALSE>>}

\* the rows a user can still act on: the calls on them are the ones that
\* change the store
PendingRideRequests == {r \in Ids(requests) : requests[r].status = "pending"}

GroupedRideRequests == {r \in Ids(requests) : requests[r].status = "grouped"}

PendingNotifications == {n \in Ids(notifs) : notifs[n].status = "pending"}

Next ==
    \/ /\ Len(requests) < MaxRequests
       /\ \E u \in Users, k \in RequestKinds : CreateRideRequest(u, k[1], k[2], k[3])
    \/ \E r \in GroupedRideRequests : AcceptRideRequest(r)
    \/ \E r \in PendingRideRequests : CancelRideRequest(r)
    \/ \E n \in PendingNotifications : AcceptRide(n)
    \/ \E n \in PendingNotifications : RejectRide(n)
    \/ \E d \in DriverIds : UpdateDriver(d, Unset, Unset, "busy")

Spec == Init /\ [][Next]_vars

(***************************************************************************)
(* SpecLife: the life of requests, notifications and groups. Every handler *)
(* the users have is called on every row, whatever its status, so the      *)
(* calls that are refused are steps too; the requests all ask for the same *)
(* station and hour.                                                       *)
(***************************************************************************)
MaxLifeRequests == 2

NextLife ==
    \/ /\ Len(requests) < MaxLifeRequests
       /\ \E u \in Users, rail \in BOOLEAN : CreateRideRequest(u, <<"s">>, 0, rail)
    \/ \E r \in Ids(requests) : AcceptRideRequest(r)
    \/ \E r \in Ids(requests) : CancelRideRequest(r)
    \/ \E n \in Ids(notifs) : AcceptRide(n)
    \/ \E n \in Ids(notifs) : RejectRide(n)
    \/ \E n \in Ids(notifs) : MarkNotificationRead(n)

SpecLife == Init /\ [][NextLife]_vars

(***************************************************************************)
(* SpecSeats: the same handlers, started from the store that four          *)
(* create_ride_request calls for the same station and hour leave behind,   *)
(* one auto-created group with its four seats taken, once the first two    *)
(* notifications have been accepted by their recipients.                   *)
(***************************************************************************)
MaxSeatRequests == 3

SeedUsers == <<"u1", "u2", "u1", "u2">>

EmptyStore ==
    [requests |-> <<>>, groups |-> <<>>, notifs |-> <<>>,
     drivers |-> [d \in DriverIds |-> VerifiedDriver(IF d = "d1" THEN 1 ELSE 2)],
     grouped_ride |-> 0, outcome |-> "none", driver |-> NoDriver, selected |-> 0]

\* the store after the first n seed calls, each run to completion
RECURSIVE Seeded(_)
Seeded(n) ==
    IF n = 0 THEN EmptyStore
    ELSE LET prev == Seeded(n - 1)
             reqs == Append(prev.requests,
                            NewRideRequest(SeedUsers[n], <<"s">>, 0, TRUE))
         IN  CHOOSE res \in auto_group_railway_station_request(
                                reqs, prev.groups, prev.notifs, prev.drivers, n) : TRUE

\* the state after the first n seed calls
InitSeeded(n) ==
    LET seed == Seeded(n)
    IN  /\ requests = seed.requests
        /\ groups = seed.groups
        /\ notifs = seed.notifs
        /\ drivers = seed.drivers
        /\ last_assigned_at = Touch([d \in DriverIds |-> 0], seed.groups[1].driver_id)
        /\ last = Returned(n, seed)
        /\ pc = [w \in Workers |-> "idle"]
        /\ sess = [w \in Workers |-> IdleSession]
        /\ NoTrips
        /\ NoSearch

\* accept_ride on notifications 1 and 2, each finding its user's first request
InitSeats ==
    LET seed == Seeded(Len(SeedUsers))
    IN  /\ requests = [seed.requests EXCEPT ![1].status = "accepted",
                                            ![2].status = "accepted"]
        /\ groups = seed.groups
        /\ notifs = [seed.notifs EXCEPT ![1].status = "accepted",
                                        ![2].status = "accepted"]
        /\ drivers = seed.drivers
        /\ last_assigned_at = Touch([d \in DriverIds |-> 0], seed.groups[1].driver_id)
        /\ last = Replied("accept_ride", 2, "200", 1)
        /\ pc = [w \in Workers |-> "idle"]
        /\ sess = [w \in Workers |-> IdleSession]
        /\ NoTrips
        /\ NoSearch
    /\ NoSearch

SeatKinds == {<<"u2", TRUE>>, <<"u1", FALSE>>}

NextSeats ==
    \/ /\ Len(requests) < Len(SeedUsers) + MaxSeatRequests
       /\ \E k \in SeatKinds : CreateRideRequest(k[1], <<"s">>, 0, k[2])
    \/ \E r \in PendingRideRequests : CancelRideRequest(r)
    \/ \E n \in PendingNotifications : AcceptRide(n)
    \/ \E n \in PendingNotifications : RejectRide(n)

SpecSeats == InitSeats /\ [][NextSeats]_vars

(***************************************************************************)
(* SpecFair: the driver queue. The drivers start as create_driver leaves   *)
(* them (active, unverified, never updated); the admin updates them in any *)
(* way, and each ride request asks for an hour far enough from the others  *)
(* that it needs a group, and so a driver, of its own.                     *)
(***************************************************************************)
MaxFairRequests == 3

NewDriver ==
    [is_active |-> TRUE, is_verified |-> FALSE, availability_status |-> "available",
     assigned_rides_count |-> 0, updated_at |-> 0]

InitFair ==
    /\ requests = <<>>
    /\ groups = <<>>
    /\ notifs = <<>>
    /\ drivers = [d \in DriverIds |-> NewDriver]
    /\ last_assigned_at = [d \in DriverIds |-> 0]
    /\ last = NoCall
    /\ pc = [w \in Workers |-> "idle"]
    /\ sess = [w \in Workers |-> IdleSession]
    /\ NoTrips
    /\ NoSearch

Flags == {Unset, "true", "false"}

NextFair ==
    \/ /\ Len(requests) < MaxFairRequests
       /\ CreateRideRequest("u1", <<"s">>, (2 * TimeWindowHours + 1) * Len(requests), TRUE)
    \/ \E d \in DriverIds, v \in Flags, a \in Flags, s \in {Unset, "available", "busy"} :
           UpdateDriver(d, v, a, s)

SpecFair == InitFair /\ [][NextFair]_vars

(***************************************************************************)
(* SpecConc: create_ride_request run by two workers at once, each with its *)
(* own session. A session reads committed rows when it queries (READ       *)
(* COMMITTED) and the store sees its writes only at db.commit(). Started   *)
(* from the store of SpecSeats one call earlier: one group with one free   *)
(* seat.                                                                   *)
(***************************************************************************)
MaxConcRequests == 2

InitConc == InitSeeded(Len(SeedUsers) - 1)

\* create_ride_request up to its first commit: the pending request is stored
Begin(w, user, dest, time, rail) ==
    /\ pc[w] = "idle"
    /\ requests' = Append(requests, NewRideRequest(user, dest, time, rail))
    /\ sess' = [sess EXCEPT ![w] = [IdleSession EXCEPT !.req = Len(requests) + 1]]
    /\ \/ /\ rail
          /\ pc' = [pc EXCEPT ![w] = "search"]
          /\ UNCHANGED last
       \/ /\ ~rail
          /\ pc' = [pc EXCEPT ![w] = "idle"]
          /\ last' = [NoCall EXCEPT !.op = "create", !.req = Len(requests) + 1]
    /\ UNCHANGED <<groups, notifs, drivers, last_assigned_at, rankVars, tripVars>>

\* find_matching_railway_station_trip: the session loads the trip's
\* ride_requests and sees `seats` free
Search(w) ==
    /\ pc[w] = "search"
    /\ LET req == requests[sess[w].req]
       IN  \E g \in find_matching_railway_station_trip(
                        requests, groups, req.destination_address, req.requested_time) :
               \/ /\ g # 0
                  /\ sess' = [sess EXCEPT
                         ![w].trip = g,
                         ![w].seats = calculate_available_seats(requests, groups[g], g)]
                  /\ pc' = [pc EXCEPT ![w] = "add"]
               \/ /\ g = 0
                  /\ pc' = [pc EXCEPT ![w] = "create"]
                  /\ UNCHANGED sess
    /\ UNCHANGED <<requests, groups, notifs, drivers, last_assigned_at, last, rankVars, tripVars>>

\* what the call returns to create_ride_request when it brings no group back:
\* nothing is committed
ReturnNone(w, outcome) ==
    /\ last' = [op |-> "autoGroup", req |-> sess[w].req, outcome |-> outcome,
                grouped_ride |-> 0, driver |-> NoDriver, selected |-> sess[w].trip]
    /\ pc' = [pc EXCEPT ![w] = "idle"]
    /\ sess' = [sess EXCEPT ![w] = IdleSession]

\* add_to_existing_trip on the trip the search chose. The seat check reads
\* grouped_ride.ride_requests again: the collection the session loaded
\* during the search, or the rows committed by now if it is loaded afresh.
AddToExisting(w) ==
    /\ pc[w] = "add"
    /\ LET g == sess[w].trip
       IN  \E seats \in {sess[w].seats, calculate_available_seats(requests, groups[g], g)} :
               LET res == add_to_existing_trip(requests, notifs, sess[w].req, g, seats)
               IN  \/ /\ res.ok
                      /\ sess' = [sess EXCEPT ![w].outcome = "added_to_existing"]
                      /\ pc' = [pc EXCEPT ![w] = "commit"]
                      /\ UNCHANGED last
                   \/ /\ ~res.ok
                      /\ ReturnNone(w, "no_seats_available")
    /\ UNCHANGED <<requests, groups, notifs, drivers, last_assigned_at, rankVars, tripVars>>

\* create_railway_station_trip: the driver query, then the new trip, the
\* driver's incremented count and the request's attachment, all still
\* inside the session
CreateTrip(w) ==
    /\ pc[w] = "create"
    /\ \E d \in get_next_available_driver(drivers) :
           \/ /\ d # NoDriver
              /\ sess' = [sess EXCEPT ![w].driver = d,
                                      ![w].count = drivers[d].assigned_rides_count,
                                      ![w].outcome = "new_trip_created"]
              /\ pc' = [pc EXCEPT ![w] = "commit"]
              /\ UNCHANGED last
           \/ /\ d = NoDriver
              /\ ReturnNone(w, "no_driver_available")
    /\ UNCHANGED <<requests, groups, notifs, drivers, last_assigned_at, rankVars, tripVars>>

\* db.commit(): the session's writes reach the store. The driver row is
\* written with the count the session computed from the value it had read.
Commit(w) ==
    /\ pc[w] = "commit"
    /\ LET r == sess[w].req
           d == sess[w].driver
           made == IF d = NoDriver
                   THEN [ok |-> FALSE, groups |-> groups, drivers |-> drivers]
                   ELSE create_railway_station_trip(
                            groups,
                            [drivers EXCEPT ![d].assigned_rides_count = sess[w].count],
                            requests[r], d)
           g == IF d = NoDriver THEN sess[w].trip ELSE Len(made.groups)
           res == add_to_existing_trip(requests, notifs, r, g, 1)
       IN  /\ groups' = made.groups
           /\ drivers' = made.drivers
           /\ requests' = res.requests
           /\ notifs' = res.notifs
           /\ last_assigned_at' = IF d = NoDriver THEN last_assigned_at
                                  ELSE Touch(last_assigned_at, d)
           /\ last' = [op |-> "autoGroup", req |-> r, outcome |-> sess[w].outcome,
                       grouped_ride |-> g, driver |-> d, selected |-> sess[w].trip]
    /\ pc' = [pc EXCEPT ![w] = "idle"]
    /\ sess' = [sess EXCEPT ![w] = IdleSession]
    /\ UNCHANGED <<rankVars, tripVars>>

RollbackKeepingFlushedTrip(w) ==
    /\ pc[w] \in {"search", "add", "create", "commit"}
    /\ groups' = IF pc[w] = "commit" /\ sess[w].driver # NoDriver
                 THEN Append(groups, NewGroupedRide(sess[w].driver, requests[sess[w].req]))
                 ELSE groups
    /\ last' = [op |-> "autoGroup", req |-> sess[w].req, outcome |-> "error",
                grouped_ride |-> 0, driver |-> sess[w].driver, selected |-> sess[w].trip]
    /\ pc' = [pc EXCEPT ![w] = "idle"]
    /\ sess' = [sess EXCEPT ![w] = IdleSession]
    /\ UNCHANGED <<requests, notifs, drivers, last_assigned_at, rankVars, tripVars>>

\* a query, db.flush() or db.commit() raises inside the try block:
\* create_ride_request catches it and calls db.rollback(), which discards
\* everything the session has added, flushed or changed since its last commit
Rollback(w) ==
    /\ pc[w] \in {"search", "add", "create", "commit"}
    /\ last' = [op |-> "autoGroup", req |-> sess[w].req, outcome |-> "error",
                grouped_ride |-> 0, driver |-> sess[w].driver, selected |-> sess[w].trip]
    /\ pc' = [pc EXCEPT ![w] = "idle"]
    /\ sess' = [sess EXCEPT ![w] = IdleSession]
    /\ UNCHANGED <<requests, groups, notifs, drivers, last_assigned_at, rankVars, tripVars>>

\* the hours concurrent requests ask for: the seeded group's, and one outside
\* its window
ConcTimes == {0, 2 * TimeWindowHours + 1}

NextConc ==
    \/ /\ Len(requests) < Len(SeedUsers) - 1 + MaxConcRequests
       /\ \E w \in Workers, u \in Users, t \in ConcTimes, rail \in BOOLEAN :
              Begin(w, u, <<"s">>, t, rail)
    \/ \E w \in Workers : Search(w)
    \/ \E w \in Workers : AddToExisting(w)
    \/ \E w \in Workers : CreateTrip(w)
    \/ \E w \in Workers : Commit(w)
    \/ \E w \in Workers : Rollback(w)
    \/ \E d \in DriverIds : UpdateDriver(d, Unset, Unset, "busy")

SpecConc == InitConc /\ [][NextConc]_vars

(***************************************************************************)
(* Properties checked under Spec *)
(***************************************************************************)
RideAssignments(nts, user, g) ==
    {n \in Ids(nts) : /\ nts[n].user_id = user
                      /\ nts[n].grouped_ride_id = g
                      /\ nts[n].notification_type = "ride_assignment"}

\* the step is a create_ride_request call that ran autoGroup for request last'.req
AutoGroupStep == last' # last /\ last'.op = "autoGroup"

\* C4: there is at most one ride-assignment notification for each
\* (recipient, group) pair, in every reachable state.
C4_OneNotificationPerRecipientAndGroup ==
    \A u \in Users : \A g \in Ids(groups) :
        Cardinality(RideAssignments(notifs, u, g)) <= 1

\* the spec's occupiedSeats: attached requests that are neither rejected nor cancelled
OccupiedSeats(reqs, g) ==
    Cardinality({r \in Ids(reqs) : /\ reqs[r].grouped_ride_id = g
                                   /\ reqs[r].status \notin {"rejected", "cancelled"}})

\* an open group that matches the request and has a free seat
OpenGroupFor(reqs, grps, req) ==
    {g \in Ids(grps) :
        /\ grps[g].is_railway_station_trip
        /\ grps[g].status \in {"pending_acceptance", "confirmed"}
        /\ ILike(grps[g].destination_address, req.destination_address)
        /\ grps[g].pickup_time - req.requested_time <= TimeWindowHours
        /\ req.requested_time - grps[g].pickup_time <= TimeWindowHours
        /\ OccupiedSeats(reqs, g) < grps[g].total_seats}

EligibleDrivers(ds) ==
    {d \in DriverIds : /\ ds[d].is_active
                       /\ ds[d].is_verified
                       /\ ds[d].availability_status = "available"}

\* C6: when autoGroup finds no open group and no driver is eligible, it
\* returns (none, no_driver_available) and changes nothing: the request stays
\* pending with no group, and no group, notification or driver row changes.
C6_NoDriverChangesNothing ==
    [][(/\ AutoGroupStep
        /\ OpenGroupFor(requests, groups, requests'[last'.req]) = {}
        /\ EligibleDrivers(drivers) = {})
       => (/\ last'.outcome = "no_driver_available"
           /\ last'.grouped_ride = 0
           /\ Len(requests') = Len(requests) + 1
           /\ SubSeq(requests', 1, Len(requests)) = requests
           /\ requests'[last'.req].status = "pending"
           /\ requests'[last'.req].grouped_ride_id = 0
           /\ groups' = groups
           /\ notifs' = notifs
           /\ drivers' = drivers)]_vars

\* C6 witness: a call ended no_driver_available while another group existed
C6_Witness ==
    /\ last.outcome = "no_driver_available"
    /\ Len(groups) > 0
    /\ requests[last.req].status = "pending"

\* C7: when autoGroup returns new_trip_created, exactly one group was added,
\* auto-created with 4 seats, pending_acceptance and the driver nextDriver
\* returned; the request is attached to it as grouped; that driver's
\* assigned_rides_count grew by exactly one and no other driver's changed.
C7_NewTripCreated ==
    [][(AutoGroupStep /\ last'.outcome = "new_trip_created")
       => LET g == last'.grouped_ride
              d == last'.driver
          IN  /\ Len(groups') = Len(groups) + 1
              /\ SubSeq(groups', 1, Len(groups)) = groups
              /\ g = Len(groups')
              /\ groups'[g].auto_created
              /\ groups'[g].total_seats = 4
              /\ groups'[g].status = "pending_acceptance"
              /\ d \in EligibleDrivers(drivers)
              /\ d \in get_next_available_driver(drivers)
              /\ groups'[g].driver_id = d
              /\ requests'[last'.req].grouped_ride_id = g
              /\ requests'[last'.req].status = "grouped"
              /\ drivers'[d].assigned_rides_count = drivers[d].assigned_rides_count + 1
              /\ \A e \in DriverIds \ {d} :
                     drivers'[e].assigned_rides_count = drivers[e].assigned_rides_count]_vars

\* C7 witness: a second group was created, by a driver who now has one assignment
C7_Witness ==
    /\ last.outcome = "new_trip_created"
    /\ Len(groups) = 2
    /\ last.grouped_ride = 2
    /\ drivers[last.driver].assigned_rides_count = 1

\* C8: an autoGroup call that returns added_to_existing or new_trip_created
\* sets the request's group to the returned one and its status to grouped, and
\* adds exactly one notification: a pending ride assignment to the requester
\* for that group.
C8_AttachNotifiesRequesterOnce ==
    [][(AutoGroupStep /\ last'.outcome \in {"added_to_existing", "new_trip_created"})
       => LET r == last'.req
              g == last'.grouped_ride
          IN  /\ g \in Ids(groups')
              /\ requests'[r].grouped_ride_id = g
              /\ requests'[r].status = "grouped"
              /\ notifs' = Append(notifs,
                     [user_id |-> requests'[r].user_id, grouped_ride_id |-> g,
                      notification_type |-> "ride_assignment", status |-> "pending"])]_vars

\* C8 witness: a request of one user was added to a group another user's request opened
C8_Witness ==
    /\ last.outcome = "added_to_existing"
    /\ \E r \in RideRequestsOf(requests, last.grouped_ride) :
           requests[r].user_id # requests[last.req].user_id
    /\ requests[last.req].status = "grouped"

(***************************************************************************)
(* Properties checked under SpecLife *)
(***************************************************************************)

\* the step is a call of one of the handlers in ops, answered with `code`
Answered(ops, code) ==
    last' # last /\ last'.op \in ops /\ last'.outcome = code

\* C12: accept or reject called on a notification that is not pending
\* (accepted, rejected or read) is answered with an error and changes no
\* notification, no request and no group.
C12_NotPendingIsRefused ==
    [][(/\ last' # last
        /\ last'.op \in {"accept_ride", "reject_ride"}
        /\ notifs[last'.req].status # "pending")
       => (/\ last'.outcome = "400"
           /\ notifs' = notifs
           /\ requests' = requests
           /\ groups' = groups)]_vars

\* C12 witness: a reject was refused on a notification its recipient had
\* accepted, and an accept on a notification marked read
C12_Witness ==
    /\ last.outcome = "400"
    /\ \/ /\ last.op = "reject_ride"
          /\ notifs[last.req].status = "accepted"
          /\ \E r \in Ids(requests) : requests[r].status = "accepted"
       \/ /\ last.op = "accept_ride"
          /\ notifs[last.req].status = "read"

\* the requests attached to g that are not cancelled
ActiveMembers(reqs, g) ==
    {r \in Ids(reqs) : reqs[r].grouped_ride_id = g /\ reqs[r].status # "cancelled"}

\* C13: after a successful accept, through either endpoint, if every request
\* still attached to the group and not cancelled is accepted, the group is
\* confirmed, also when other members rejected earlier and left the group.
C13_AllAcceptedConfirmsGroup ==
    [][Answered({"accept_ride", "accept_ride_request"}, "200")
       => LET g == last'.grouped_ride
          IN  (/\ g # 0
               /\ \A r \in ActiveMembers(requests', g) : requests'[r].status = "accepted")
                  => groups'[g].status = "confirmed"]_vars

\* C14: in a group whose members are distinct users, all notified, none
\* rejected or cancelled, a successful accept leaves the group
\* pending_acceptance while some member has not accepted and makes it
\* confirmed when it is the last member's accept.
C14_ConfirmedExactlyOnLastAccept ==
    [][Answered({"accept_ride", "accept_ride_request"}, "200")
       => LET g == last'.grouped_ride
              members == RideRequestsOf(requests', g)
          IN  (/\ g # 0
               /\ groups[g].status = "pending_acceptance"
               /\ \A r \in members : requests'[r].status \in {"grouped", "accepted"}
               /\ \A r, x \in members : requests'[r].user_id = requests'[x].user_id => r = x
               /\ \A n \in Ids(notifs') :
                      notifs'[n].grouped_ride_id = g => notifs'[n].status # "rejected")
                  => IF \A r \in members : requests'[r].status = "accepted"
                     THEN groups'[g].status = "confirmed"
                     ELSE groups'[g].status = "pending_acceptance"]_vars

\* C15: a successful reject of a pending notification sets it to rejected,
\* sets one request of the rejecting user in that group to rejected with no
\* group, and leaves every other request, every other notification and the
\* group (status and total_seats) as they were.
C15_RejectTouchesOnlyItsRequest ==
    [][Answered({"reject_ride"}, "200")
       => LET n == last'.req
              g == notifs[n].grouped_ride_id
          IN  /\ notifs[n].status = "pending"
              /\ notifs' = [notifs EXCEPT ![n].status = "rejected"]
              /\ \E r \in Ids(requests) :
                     /\ requests[r].user_id = notifs[n].user_id
                     /\ requests[r].grouped_ride_id = g
                     /\ requests' = [requests EXCEPT ![r].status = "rejected",
                                                     ![r].grouped_ride_id = 0]
              /\ groups' = groups]_vars

\* C15 witness: a member rejected and left a group in which another member remains
C15_Witness ==
    /\ last.op = "reject_ride"
    /\ last.outcome = "200"
    /\ notifs[last.req].status = "rejected"
    /\ \E r \in Ids(requests) :
           /\ requests[r].user_id = notifs[last.req].user_id
           /\ requests[r].status = "rejected"
           /\ requests[r].grouped_ride_id = 0
    /\ \E x \in RideRequestsOf(requests, last.grouped_ride) :
           requests[x].status = "grouped"

\* the edges of the request status machine
StatusEdges ==
    {<<"pending", "grouped">>, <<"grouped", "accepted">>, <<"grouped", "rejected">>,
     <<"pending", "cancelled">>,
     <<"accepted", "completed">>, <<"accepted", "cancelled">>,
     <<"rejected", "completed">>, <<"rejected", "cancelled">>}

\* C18: under any sequence of autoGroup, accept (either endpoint), reject and
\* cancel calls, a request's status changes only along the edges of the
\* status machine: an accepted request never becomes rejected.
C18_StatusFollowsEdges ==
    [][\A r \in Ids(requests) :
           requests'[r].status # requests[r].status
               => <<requests[r].status, requests'[r].status>> \in StatusEdges]_vars

\* the ride_assignment notifications of group g: one per member autoGroup put in it
AssignmentsOf(nts, g) ==
    {n \in Ids(nts) : nts[n].grouped_ride_id = g
                       /\ nts[n].notification_type = "ride_assignment"}

\* every member of g was notified, rejected, and has left the group
EveryMemberRejected(g) ==
    /\ AssignmentsOf(notifs, g) # {}
    /\ \A n \in AssignmentsOf(notifs, g) : notifs[n].status = "rejected"
    /\ RideRequestsOf(requests, g) = {}

\* C31: a group reaches cancelled through member rejections: once every
\* member of a group has rejected, the group's status is cancelled.
C31_AllRejectedGroupIsCancelled ==
    \A g \in Ids(groups) : EveryMemberRejected(g) => groups[g].status = "cancelled"

\* C32: a group whose status is confirmed has no attached request in status
\* grouped: a group does not stay confirmed once autoGroup has attached a
\* request that is not accepted yet.
C32_ConfirmedGroupHasNoGroupedRequest ==
    \A g \in Ids(groups) :
        groups[g].status = "confirmed"
            => \A r \in RideRequestsOf(requests, g) : requests[r].status # "grouped"

\* C35: once a ride-assignment notification is accepted or rejected, no
\* later call of its recipient (accept, reject or mark-read) changes its
\* status.
C35_AnsweredNotificationKeepsStatus ==
    [][\A n \in Ids(notifs) :
           (/\ notifs[n].notification_type = "ride_assignment"
            /\ notifs[n].status \in {"accepted", "rejected"})
               => notifs'[n].status = notifs[n].status]_vars

\* C36: a request's status and grouped_ride_id agree: grouped or accepted
\* implies the request is attached to a group, and pending, rejected or
\* cancelled implies it is attached to none.
C36_StatusAgreesWithGroup ==
    \A r \in Ids(requests) :
        /\ requests[r].status \in {"grouped", "accepted"}
               => requests[r].grouped_ride_id \in Ids(groups)
        /\ requests[r].status \in {"pending", "rejected", "cancelled"}
               => requests[r].grouped_ride_id = 0

\* C36 witness: a member has just rejected and left, with no group, a group
\* in which another member's request is accepted
C36_Witness ==
    /\ last.op = "reject_ride"
    /\ last.outcome = "200"
    /\ \E r, x \in Ids(requests) :
           /\ requests[r].status = "rejected"
           /\ requests[r].grouped_ride_id = 0
           /\ requests[x].status = "accepted"
           /\ requests[x].grouped_ride_id = last.grouped_ride

\* C37: a request attached to a group has status accepted only if the
\* ride-assignment notification for its requester and that group is
\* accepted, whichever accept endpoint was used.
C37_AcceptedRequestHasAcceptedNotification ==
    \A r \in Ids(requests) :
        (requests[r].status = "accepted" /\ requests[r].grouped_ride_id # 0)
            => \E n \in AssignmentsOf(notifs, requests[r].grouped_ride_id) :
                   /\ notifs[n].user_id = requests[r].user_id
                   /\ notifs[n].status = "accepted"

(***************************************************************************)
(* Properties checked under SpecSeats *)
(***************************************************************************)

\* C1: after any sequence of autoGroup, accept, reject and cancel calls run
\* one at a time, every group has occupiedSeats(group) <= total_seats.
C1_SeatInvariant ==
    \A g \in Ids(groups) : OccupiedSeats(requests, g) <= groups[g].total_seats

\* C1 witness: a group is full and a later request went to another group
C1_Witness ==
    \E g \in Ids(groups) :
        /\ OccupiedSeats(requests, g) = groups[g].total_seats
        /\ \E r \in Ids(requests) :
               /\ requests[r].grouped_ride_id \notin {0, g}
               /\ \A x \in RideRequestsOf(requests, g) : x < r

\* the groups with 4 seats that hold 4 grouped or accepted requests and match
\* the request's destination and time
FullGroupsFor(reqs, grps, req) ==
    {g \in Ids(grps) :
        /\ grps[g].total_seats = 4
        /\ Cardinality({r \in Ids(reqs) : /\ reqs[r].grouped_ride_id = g
                                          /\ reqs[r].status \in {"grouped", "accepted"}}) = 4
        /\ grps[g].is_railway_station_trip
        /\ grps[g].status \in {"pending_acceptance", "confirmed"}
        /\ ILike(grps[g].destination_address, req.destination_address)
        /\ grps[g].pickup_time - req.requested_time <= TimeWindowHours
        /\ req.requested_time - grps[g].pickup_time <= TimeWindowHours}

\* C3 as stated: with a matching group full, autoGroup never attaches to it
\* and, a driver being eligible, always creates a new group.
C3_FullGroupAlwaysCreatesNew ==
    [][AutoGroupStep
       => \A g \in FullGroupsFor(requests, groups, requests'[last'.req]) :
              /\ requests'[last'.req].grouped_ride_id # g
              /\ EligibleDrivers(drivers) # {}
                   => /\ last'.outcome = "new_trip_created"
                      /\ Len(groups') = Len(groups) + 1]_vars

\* C3 amended: with a matching group full, autoGroup never attaches to it;
\* a driver being eligible and no other matching open group having a free
\* seat, it creates a new group and returns new_trip_created.
C3_FullGroupNeverAttached ==
    [][AutoGroupStep
       => \A g \in FullGroupsFor(requests, groups, requests'[last'.req]) :
              /\ requests'[last'.req].grouped_ride_id # g
              /\ last'.grouped_ride # g
              /\ (/\ EligibleDrivers(drivers) # {}
                  /\ OpenGroupFor(requests, groups, requests'[last'.req]) = {})
                   => /\ last'.outcome = "new_trip_created"
                      /\ Len(groups') = Len(groups) + 1
                      /\ last'.grouped_ride = Len(groups')]_vars

\* C3 witness: the fifth request found the first group full and opened a second
C3_Witness ==
    /\ last.outcome = "new_trip_created"
    /\ last.grouped_ride = 2
    /\ requests[last.req].grouped_ride_id = 2
    /\ Cardinality({r \in Ids(requests) :
                       /\ requests[r].grouped_ride_id = 1
                       /\ requests[r].status \in {"grouped", "accepted"}}) = 4

\* the latest call was a successful reject that took a member out of a group
\* which was full, and the group matches the request: {} or that one group
FreedGroupFor(reqs, grps, req) ==
    {g \in Ids(grps) :
        /\ last.op = "reject_ride"
        /\ last.outcome = "200"
        /\ last.grouped_ride = g
        /\ OccupiedSeats(reqs, g) = grps[g].total_seats - 1
        /\ grps[g].is_railway_station_trip
        /\ grps[g].status \in {"pending_acceptance", "confirmed"}
        /\ ILike(grps[g].destination_address, req.destination_address)
        /\ grps[g].pickup_time - req.requested_time <= TimeWindowHours
        /\ req.requested_time - grps[g].pickup_time <= TimeWindowHours}

EarliestCreated(gs) == CHOOSE g \in gs : \A h \in gs : g <= h

\* C29: when several open groups match a request's destination and time
\* window, autoGroup attaches the request to the earliest-created matching
\* group that has a free seat, so that the same stored state always yields
\* the same choice.
C29_EarliestCreatedGroupChosen ==
    [][(AutoGroupStep /\ OpenGroupFor(requests, groups, requests'[last'.req]) # {})
       => /\ last'.outcome = "added_to_existing"
          /\ requests'[last'.req].grouped_ride_id
                 = EarliestCreated(OpenGroupFor(requests, groups, requests'[last'.req]))]_vars

(***************************************************************************)
(* Properties checked under SpecFair *)
(***************************************************************************)

\* C9: for every driver pool, nextDriver returns none or a driver that is
\* active, verified and available, never one that fails any of the three.
C9_NextDriverIsEligible ==
    \A d \in get_next_available_driver(drivers) :
        \/ d = NoDriver
        \/ /\ drivers[d].is_active
           /\ drivers[d].is_verified
           /\ drivers[d].availability_status = "available"

\* C9 witness: nextDriver passed over a less loaded driver that is not available
C9_Witness ==
    \E d \in get_next_available_driver(drivers) : \E e \in DriverIds :
        /\ d # NoDriver
        /\ drivers[e].is_active
        /\ drivers[e].is_verified
        /\ drivers[e].availability_status = "busy"
        /\ drivers[e].assigned_rides_count < drivers[d].assigned_rides_count

\* C10: when a driver is eligible, nextDriver returns an eligible driver with
\* the least assigned_rides_count and, among those, one whose last assignment
\* is the oldest (a driver never assigned counts as the oldest).
C10_LeastLoadedThenOldestAssignment ==
    EligibleDrivers(drivers) # {}
        => \A d \in get_next_available_driver(drivers) :
               /\ d \in EligibleDrivers(drivers)
               /\ \A e \in EligibleDrivers(drivers) :
                      /\ drivers[d].assigned_rides_count <= drivers[e].assigned_rides_count
                      /\ drivers[d].assigned_rides_count = drivers[e].assigned_rides_count
                           => last_assigned_at[d] <= last_assigned_at[e]

(***************************************************************************)
(* Properties checked under SpecConc *)
(***************************************************************************)

\* C2: when two autoGroup calls for different requests interleave against a
\* group with exactly one free seat, at most one of them attaches to it: no
\* group ever has more attached active requests than total_seats.
C2_ConcurrentCallsDoNotOverbook ==
    \A g \in Ids(groups) :
        Cardinality({r \in Ids(requests) :
                        /\ requests[r].grouped_ride_id = g
                        /\ requests[r].status \in {"grouped", "accepted"}})
            <= groups[g].total_seats

\* C5: a call whose search chose a group but which did not attach to it went
\* on to the creation phase: it ended new_trip_created or no_driver_available.
C5_LostSeatFallsThroughToCreation ==
    (/\ last.op = "autoGroup"
     /\ last.selected # 0
     /\ last.grouped_ride # last.selected)
        => last.outcome \in {"new_trip_created", "no_driver_available"}

(***************************************************************************)
(* SpecRank: one call of find_matching_trips, with a query that satisfies  *)
(* the route's validation (limits and window greater than 0) and any list  *)
(* of candidates; the initial states are the calls about to be made.       *)
(***************************************************************************)
MaxCandidates == 2

DepartureTime == 4

Queries ==
    {[NoQuery EXCEPT !.departure_time = DepartureTime,
                     !.max_origin_distance = o, !.time_window_minutes = w] :
        o \in {1, 2}, w \in {1, 2}}

\* candidates at the query's origin or 2 units from it, at its destination or
\* 2 units from it, leaving with it or a minute and a half later, full or
\* with a seat left
Candidates ==
    [id : {"a", "b"},
     origin : {Location(0), Location(2)},
     destination : {Location(0), Location(2)},
     departure_time : {DepartureTime, DepartureTime + 3},
     available_seats : {0, 1},
     driver_rating : {3, 5}]

\* the candidate lists of length 0 to n
CandidateLists(n) == UNION {[1..k -> Candidates] : k \in 0..n}

InitRank ==
    /\ requests = <<>>
    /\ groups = <<>>
    /\ notifs = <<>>
    /\ drivers = [d \in DriverIds |-> VerifiedDriver(IF d = "d1" THEN 1 ELSE 2)]
    /\ last_assigned_at = [d \in DriverIds |-> 0]
    /\ last = NoCall
    /\ pc = [w \in Workers |-> "idle"]
    /\ sess = [w \in Workers |-> IdleSession]
    /\ NoTrips
    /\ query \in Queries
    /\ candidates \in CandidateLists(MaxCandidates)
    /\ matches = <<>>
    /\ earlier = <<>>
    /\ args = <<>>
    /\ result = <<>>

\* a call find_matching_trips(query, candidates)
FindMatchingTrips ==
    /\ matches' = find_matching_trips(query, candidates)
    /\ last' = Replied("find_matching_trips", 0, "returned", 0)
    /\ UNCHANGED <<requests, groups, notifs, drivers, last_assigned_at, pc, sess, tripVars,
                   query, candidates, earlier, args, result>>

NextRank == FindMatchingTrips

SpecRank == InitRank /\ [][NextRank]_vars

\* find_matching_trips has returned `matches` for `query` and `candidates`
Searched == last.op = "find_matching_trips"

(***************************************************************************)
(* Properties checked under SpecRank *)
(***************************************************************************)

\* C19: find_matching_trips never returns a candidate whose
\* available_seats is 0 or negative, for any query and any candidate list.
C19_NoMatchWithoutSeats ==
    Searched => \A i \in 1..Len(matches) : matches[i].candidate.available_seats > 0

\* C19 witness: of two candidates at the query's place and time, the full
\* one was left out and the other returned
C19_Witness ==
    /\ Searched
    /\ Len(candidates) = 2
    /\ Len(matches) = 1
    /\ \E i \in 1..2 :
           /\ candidates[i].available_seats = 0
           /\ candidates[i].origin = query.origin
           /\ candidates[i].destination = query.destination
           /\ candidates[i].departure_time = query.departure_time

\* candidate c is within the query's three limits
WithinLimits(q, c) ==
    /\ Abs(c.origin.lat - q.origin.lat) <= q.max_origin_distance
    /\ Abs(c.destination.lat - q.destination.lat) <= q.max_dest_distance
    /\ Abs(c.departure_time - q.departure_time) <= 2 * q.time_window_minutes

\* C20: every result is within max_origin_distance, max_dest_distance and
\* time_window_minutes of the query; a candidate beyond any one of the three
\* is absent, and a candidate with a free seat within all three is present.
C20_ExactlyTheCandidatesWithinLimits ==
    Searched =>
        /\ \A i \in 1..Len(matches) :
               /\ matches[i].origin_distance <= query.max_origin_distance
               /\ matches[i].dest_distance <= query.max_dest_distance
               /\ WithinLimits(query, matches[i].candidate)
               /\ \E j \in 1..Len(candidates) : candidates[j] = matches[i].candidate
        /\ \A j \in 1..Len(candidates) :
               (candidates[j].available_seats > 0 /\ WithinLimits(query, candidates[j]))
                   => \E i \in 1..Len(matches) : matches[i].candidate = candidates[j]
        /\ Len(matches) =
               Cardinality({j \in 1..Len(candidates) :
                               /\ candidates[j].available_seats > 0
                               /\ WithinLimits(query, candidates[j])})

\* C20 witness: a candidate exactly at the origin limit was returned, and one
\* leaving half a minute outside the window was not
C20_Witness ==
    /\ Searched
    /\ Len(matches) = 1
    /\ matches[1].origin_distance = query.max_origin_distance
    /\ \E j \in 1..Len(candidates) :
           /\ candidates[j].available_seats > 0
           /\ Abs(candidates[j].origin.lat - query.origin.lat) <= query.max_origin_distance
           /\ candidates[j].destination = query.destination
           /\ Abs(candidates[j].departure_time - query.departure_time)
                  = 2 * query.time_window_minutes + 1

\* the candidate ids in ascending order
IdOrder == <<"a", "b">>

\* id x does not come after id y
IdAtMost(x, y) ==
    \E i, j \in 1..Len(IdOrder) : i <= j /\ IdOrder[i] = x /\ IdOrder[j] = y

\* C21: the list returned by find_matching_trips is ordered by score
\* descending, and two results with equal score appear in ascending order of
\* candidate id, whatever the order of the input candidates.
C21_SortedByScoreThenId ==
    Searched =>
        \A i, j \in 1..Len(matches) :
            i < j =>
                /\ matches[i].match_score >= matches[j].match_score
                /\ matches[i].match_score = matches[j].match_score
                       => IdAtMost(matches[i].candidate.id, matches[j].candidate.id)

(***************************************************************************)
(* SpecRepeat: find_matching_trips called, and called again, with the same *)
(* query and the same list of candidates. The candidates are at the        *)
(* query's destination, at its origin or 2 units from it, leaving with it  *)
(* or a minute and a half later.                                           *)
(***************************************************************************)
MaxNearCandidates == 2
MaxRepeats == 1

NearCandidates ==
    [id : {"a", "b"},
     origin : {Location(0), Location(2)},
     destination : {Location(0)},
     departure_time : {DepartureTime, DepartureTime + 3},
     available_seats : {1},
     driver_rating : {3, 5}]

RECURSIVE ListsUpTo(_, _)
ListsUpTo(S, n) ==
    IF n = 0 THEN {<<>>}
    ELSE LET shorter == ListsUpTo(S, n - 1)
         IN  shorter \cup {Append(cs, c) : cs \in {x \in shorter : Len(x) = n - 1},
                                           c \in S}

InitRepeat ==
    /\ requests = <<>>
    /\ groups = <<>>
    /\ notifs = <<>>
    /\ drivers = [d \in DriverIds |-> VerifiedDriver(IF d = "d1" THEN 1 ELSE 2)]
    /\ last_assigned_at = [d \in DriverIds |-> 0]
    /\ last = NoCall
    /\ pc = [w \in Workers |-> "idle"]
    /\ sess = [w \in Workers |-> IdleSession]
    /\ NoTrips
    /\ query \in Queries
    /\ candidates \in ListsUpTo(NearCandidates, MaxNearCandidates)
    /\ matches = <<>>
    /\ earlier = <<>>
    /\ args = <<>>
    /\ result = <<>>

\* the list in the opposite order
Reversed(cs) == [i \in 1..Len(cs) |-> cs[Len(cs) + 1 - i]]

FindMatchingTripsReversingCandidates ==
    /\ Searched
    /\ Len(earlier) < MaxRepeats
    /\ earlier' = Append(earlier, matches)
    /\ matches' = find_matching_trips(query, candidates)
    /\ candidates' = Reversed(candidates)
    /\ last' = Replied("find_matching_trips", 0, "returned", 0)
    /\ UNCHANGED <<requests, groups, notifs, drivers, last_assigned_at, pc, sess, tripVars, query,
                   args, result>>

\* one more call find_matching_trips(query, candidates), with the arguments
\* of the call before
FindMatchingTripsAgain ==
    /\ Searched
    /\ Len(earlier) < MaxRepeats
    /\ earlier' = Append(earlier, matches)
    /\ matches' = find_matching_trips(query, candidates)
    /\ last' = Replied("find_matching_trips", 0, "returned", 0)
    /\ UNCHANGED <<requests, groups, notifs, drivers, last_assigned_at, pc, sess, tripVars,
                   query, candidates, args, result>>

NextRepeat ==
    \/ FindMatchingTrips
    \/ FindMatchingTripsAgain

SpecRepeat == InitRepeat /\ [][NextRepeat]_vars

(***************************************************************************)
(* Properties checked under SpecRepeat *)
(***************************************************************************)

PerfectMatch(q, c) ==
    /\ c.available_seats > 0
    /\ c.origin = q.origin
    /\ c.destination = q.destination
    /\ c.departure_time = q.departure_time

\* C24: for a candidate with free seats whose origin, destination and
\* departure time equal the query's, find_matching_trips returns a single
\* result with zero distances and zero time difference whose score is
\* 0.8 + 0.2 * (driver_rating / 5), hence above 0.95 for a rating of 5.
C24_PerfectMatchScore ==
    (Searched /\ Len(candidates) = 1 /\ PerfectMatch(query, candidates[1])) =>
        /\ Len(matches) = 1
        /\ matches[1].candidate = candidates[1]
        /\ matches[1].origin_distance = 0
        /\ matches[1].dest_distance = 0
        /\ matches[1].time_difference_minutes = 0
        /\ 5 * MaxRating * matches[1].match_score
               = (4 * MaxRating + candidates[1].driver_rating) * ScoreScale(query)
        /\ candidates[1].driver_rating = MaxRating
               => 100 * matches[1].match_score > 95 * ScoreScale(query)

\* C24 witness: the search has returned for a single candidate rated 5 at
\* the query's place and time
C24_Witness ==
    /\ Searched
    /\ Len(candidates) = 1
    /\ PerfectMatch(query, candidates[1])
    /\ candidates[1].driver_rating = MaxRating
    /\ Len(matches) = 1
    /\ matches[1].match_score = ScoreScale(query)

(***************************************************************************)
(* SpecScore: one call of calculate_match_score, with a query that has     *)
(* positive limits and window, a candidate rated 0 to MaxRating, and       *)
(* distances and a time difference that may lie beyond the query's limits. *)
(***************************************************************************)
MaxDistance == 3
MaxTimeDiff == 3

RatedCandidates ==
    [id : {"a"},
     origin : {Location(0)},
     destination : {Location(0)},
     departure_time : {DepartureTime},
     available_seats : {1},
     driver_rating : 0..MaxRating]

ScoreArguments ==
    [query : Queries,
     candidate : RatedCandidates,
     origin_distance : 0..MaxDistance,
     dest_distance : 0..MaxDistance,
     time_diff_minutes : 0..MaxTimeDiff]

InitScore ==
    /\ requests = <<>>
    /\ groups = <<>>
    /\ notifs = <<>>
    /\ drivers = [d \in DriverIds |-> VerifiedDriver(IF d = "d1" THEN 1 ELSE 2)]
    /\ last_assigned_at = [d \in DriverIds |-> 0]
    /\ last = NoCall
    /\ pc = [w \in Workers |-> "idle"]
    /\ sess = [w \in Workers |-> IdleSession]
    /\ NoTrips
    /\ query = NoQuery
    /\ candidates = <<>>
    /\ matches = <<>>
    /\ earlier = <<>>
    /\ args \in ScoreArguments
    /\ result = <<>>

\* a call calculate_match_score(query, candidate, origin_distance,
\* dest_distance, time_diff_minutes)
CalculateMatchScore ==
    /\ result' = <<calculate_match_score(args.query, args.candidate, args.origin_distance,
                                         args.dest_distance, args.time_diff_minutes)>>
    /\ last' = Replied("calculate_match_score", 0, "returned", 0)
    /\ UNCHANGED <<requests, groups, notifs, drivers, last_assigned_at, pc, sess, tripVars,
                   query, candidates, matches, earlier, args>>

NextScore == CalculateMatchScore

SpecScore == InitScore /\ [][NextScore]_vars

\* calculate_match_score has returned result[1] for args
Scored == last.op = "calculate_match_score"

(***************************************************************************)
(* Properties checked under SpecScore *)
(***************************************************************************)

\* C23: calculate_match_score returns a value in [0,1] for every query with
\* positive distance limits and time window and every candidate with
\* driver_rating in [0,5], for all non-negative distances and time
\* differences, those beyond the limits included.
C23_ScoreWithinUnitInterval ==
    Scored => 0 <= result[1] /\ result[1] <= ScoreScale(args.query)

\* C23 witness: with both distances beyond their limits, the time difference
\* beyond the window and a rating of 0, the score returned is 0
C23_Witness ==
    /\ Scored
    /\ args.origin_distance > args.query.max_origin_distance
    /\ args.dest_distance > args.query.max_dest_distance
    /\ args.time_diff_minutes > args.query.time_window_minutes
    /\ args.candidate.driver_rating = 0
    /\ result[1] = 0

(***************************************************************************)
(* SpecLocation: one construction Location(lat, lng), with coordinates in  *)
(* whole degrees around the ends of the two ranges.                        *)
(***************************************************************************)
MaxMargin == 2

\* -90 <= self.lat <= 90
MaxLatitude == 90

\* -180 <= self.lng <= 180
MaxLongitude == 180

ValidLatitudeExclusive(lat) == -MaxLatitude < lat /\ lat < MaxLatitude

ValidLatitude(lat) == -MaxLatitude <= lat /\ lat <= MaxLatitude

ValidLongitude(lng) == -MaxLongitude <= lng /\ lng <= MaxLongitude

\* Location.__post_init__: the exception it raises, or "none"
post_init(lat, lng) ==
    IF ~ValidLatitude(lat) THEN "ValueError"
    ELSE IF ~ValidLongitude(lng) THEN "ValueError"
    ELSE "none"

\* values at, just inside and just outside the two ends of -limit..limit, and 0
AroundEnds(limit) ==
    {0} \cup {sign * (limit + k) : sign \in {-1, 1}, k \in (-MaxMargin)..MaxMargin}

InitLocation ==
    /\ requests = <<>>
    /\ groups = <<>>
    /\ notifs = <<>>
    /\ drivers = [d \in DriverIds |-> VerifiedDriver(IF d = "d1" THEN 1 ELSE 2)]
    /\ last_assigned_at = [d \in DriverIds |-> 0]
    /\ last = NoCall
    /\ pc = [w \in Workers |-> "idle"]
    /\ sess = [w \in Workers |-> IdleSession]
    /\ NoTrips
    /\ query = NoQuery
    /\ candidates = <<>>
    /\ matches = <<>>
    /\ earlier = <<>>
    /\ args \in [lat : AroundEnds(MaxLatitude), lng : AroundEnds(MaxLongitude)]
    /\ result = <<>>

\* Location(lat, lng): the dataclass stores the two fields, then __post_init__
\* validates them; an exception leaves the caller without an object
ConstructLocation ==
    LET raised == post_init(args.lat, args.lng)
    IN  /\ result' = IF raised = "none" THEN <<[lat |-> args.lat, lng |-> args.lng]>>
                     ELSE <<>>
        /\ last' = Replied("Location", 0, IF raised = "none" THEN "constructed" ELSE raised, 0)
        /\ UNCHANGED <<requests, groups, notifs, drivers, last_assigned_at, pc, sess, tripVars,
                       query, candidates, matches, earlier, args>>

NextLocation == ConstructLocation

SpecLocation == InitLocation /\ [][NextLocation]_vars

(***************************************************************************)
(* Properties checked under SpecLocation *)
(***************************************************************************)

\* the coordinate ranges, ends included
CoordinateInRange(lat, lng) == lat \in (-90)..90 /\ lng \in (-180)..180

\* C25: constructing a Location with latitude outside [-90,90] or longitude
\* outside [-180,180] fails with a validation error and yields no Location;
\* with both values inside the ranges, ends included, it succeeds and stores
\* the two values unchanged.
C25_LocationValidated ==
    last.op = "Location" =>
        IF CoordinateInRange(args.lat, args.lng)
        THEN last.outcome = "constructed" /\ result = <<[lat |-> args.lat, lng |-> args.lng]>>
        ELSE last.outcome = "ValueError" /\ result = <<>>

\* C25 witness: a Location at the ends of both ranges was constructed
C25_Witness ==
    /\ last.op = "Location"
    /\ args.lat = 90
    /\ args.lng = -180
    /\ result = <<[lat |-> 90, lng |-> -180]>>

(***************************************************************************)
(* SpecGeohash: one call of encode_geohash. geohash2.encode bisects the    *)
(* longitude and latitude ranges in turn, one bit a step, and writes five  *)
(* bits as one base-32 character. Coordinates are counted in steps of      *)
(* 1 / 2^GridBits of the half range, so that the midpoints are whole.      *)
(***************************************************************************)
MaxPrecision == 2
GridBits == 12

\* precision: int = 7
DefaultPrecision == 7

HalfRange == 2 ^ GridBits

Base32 == <<"0", "1", "2", "3", "4", "5", "6", "7", "8", "9", "b", "c", "d", "e", "f", "g",
           "h", "j", "k", "m", "n", "p", "q", "r", "s", "t", "u", "v", "w", "x", "y", "z">>

\* the first n bits of the bisection, longitude first
RECURSIVE EncodeBits(_, _, _, _, _, _)
EncodeBits(latitude, longitude, lat_interval, lon_interval, even, n) ==
    IF n <= 0 THEN <<>>
    ELSE IF even
         THEN LET mid == (lon_interval[1] + lon_interval[2]) \div 2
              IN  IF longitude > mid
                  THEN <<1>> \o EncodeBits(latitude, longitude, lat_interval,
                                           <<mid, lon_interval[2]>>, FALSE, n - 1)
                  ELSE <<0>> \o EncodeBits(latitude, longitude, lat_interval,
                                           <<lon_interval[1], mid>>, FALSE, n - 1)
         ELSE LET mid == (lat_interval[1] + lat_interval[2]) \div 2
              IN  IF latitude > mid
                  THEN <<1>> \o EncodeBits(latitude, longitude, <<mid, lat_interval[2]>>,
                                           lon_interval, TRUE, n - 1)
                  ELSE <<0>> \o EncodeBits(latitude, longitude, <<lat_interval[1], mid>>,
                                           lon_interval, TRUE, n - 1)

\* five bits as one character
Base32Char(bits) ==
    Base32[16 * bits[1] + 8 * bits[2] + 4 * bits[3] + 2 * bits[4] + bits[5] + 1]

\* geohash2.encode(latitude, longitude, precision): characters are added
\* while len(geohash) < precision
geohash2_encode(latitude, longitude, precision) ==
    LET bits == EncodeBits(latitude, longitude, <<-HalfRange, HalfRange>>,
                           <<-HalfRange, HalfRange>>, TRUE, 5 * precision)
    IN  [i \in 1..(Len(bits) \div 5) |-> Base32Char(SubSeq(bits, 5 * i - 4, 5 * i))]

encode_geohash_ignoring_precision(location, precision) ==
    geohash2_encode(location.lat, location.lng, DefaultPrecision)

encode_geohash(location, precision) ==
    geohash2_encode(location.lat, location.lng, precision)

\* coordinates at the ends of the ranges, at and next to the middle, and
\* inside a cell
GridCoordinates == {-HalfRange, -1, 0, 1, HalfRange \div 4 + 3, HalfRange}

InitGeohash ==
    /\ requests = <<>>
    /\ groups = <<>>
    /\ notifs = <<>>
    /\ drivers = [d \in DriverIds |-> VerifiedDriver(IF d = "d1" THEN 1 ELSE 2)]
    /\ last_assigned_at = [d \in DriverIds |-> 0]
    /\ last = NoCall
    /\ pc = [w \in Workers |-> "idle"]
    /\ sess = [w \in Workers |-> IdleSession]
    /\ NoTrips
    /\ query = NoQuery
    /\ candidates = <<>>
    /\ matches = <<>>
    /\ earlier = <<>>
    /\ args \in [location : [lat : GridCoordinates, lng : GridCoordinates],
                 precision : 0..MaxPrecision]
    /\ result = <<>>

\* a call encode_geohash(location, precision)
EncodeGeohash ==
    /\ result' = <<encode_geohash(args.location, args.precision)>>
    /\ last' = Replied("encode_geohash", 0, "returned", 0)
    /\ UNCHANGED <<requests, groups, notifs, drivers, last_assigned_at, pc, sess, tripVars,
                   query, candidates, matches, earlier, args>>

NextGeohash == EncodeGeohash

SpecGeohash == InitGeohash /\ [][NextGeohash]_vars

(***************************************************************************)
(* Properties checked under SpecGeohash *)
(***************************************************************************)

\* string a is a prefix of string b
StartsWith(b, a) == Len(a) <= Len(b) /\ SubSeq(b, 1, Len(a)) = a

\* C26: for every coordinate and every precision p, encode_geohash(coord, p)
\* has length p and is a prefix of encode_geohash(coord, p + 1).
C26_LongerHashExtendsShorter ==
    last.op = "encode_geohash" =>
        /\ Len(result[1]) = args.precision
        /\ StartsWith(encode_geohash(args.location, args.precision + 1), result[1])

\* C26 witness: a hash of two characters was returned for a coordinate off
\* the middle of both ranges
C26_Witness ==
    /\ last.op = "encode_geohash"
    /\ args.precision = 2
    /\ args.location.lat > 1
    /\ args.location.lng < 0
    /\ Len(result[1]) = 2
    /\ result[1][1] # result[1][2]

(***************************************************************************)
(* SpecNeighbors: one call of get_geohash_neighbors. A key stands for its  *)
(* cell, a column and a row of the grid of its precision. What             *)
(* geohash2.neighbors does for each direction is an input of the call: it  *)
(* raises, returns nothing, or returns the key of the cell next to the     *)
(* given one in that direction.                                            *)
(***************************************************************************)
GridCols == 8
GridRows == 4

\* for direction in ['n', 's', 'e', 'w', 'ne', 'nw', 'se', 'sw']
Directions == <<"n", "s", "e", "w", "ne", "nw", "se", "sw">>

LibraryOutcomes == {"raises", "none", "cell"}

East(direction) ==
    IF direction \in {"e", "ne", "se"} THEN 1
    ELSE IF direction \in {"w", "nw", "sw"} THEN -1 ELSE 0

North(direction) ==
    IF direction \in {"n", "ne", "nw"} THEN 1
    ELSE IF direction \in {"s", "se", "sw"} THEN -1 ELSE 0

\* the key geohash2.neighbors(geohash, direction) returns when it returns one
Adjacent(geohash, direction) ==
    [col |-> (geohash.col + East(direction)) % GridCols,
     row |-> (geohash.row + North(direction)) % GridRows]

\* the body of the try block from direction number i on: the list built, and
\* whether an exception ended it
RECURSIVE TryNeighbors(_, _, _, _)
TryNeighbors(geohash, library, i, neighbors) ==
    IF i > Len(Directions) THEN [raised |-> FALSE, neighbors |-> neighbors]
    ELSE LET direction == Directions[i]
         IN  IF library[direction] = "raises"
             THEN [raised |-> TRUE, neighbors |-> neighbors]
             ELSE IF library[direction] = "none"
             THEN TryNeighbors(geohash, library, i + 1, neighbors)
             ELSE TryNeighbors(geohash, library, i + 1,
                               Append(neighbors, Adjacent(geohash, direction)))

get_geohash_neighbors_keeping_partial_list(geohash, library) ==
    TryNeighbors(geohash, library, 1, <<geohash>>).neighbors

get_geohash_neighbors(geohash, library) ==
    LET attempt == TryNeighbors(geohash, library, 1, <<geohash>>)
    IN  IF attempt.raised THEN <<geohash>> ELSE attempt.neighbors

\* cells in a corner, on an edge and inside the grid
Keys == [col : {0, 1, GridCols - 1}, row : {0, 1, GridRows - 1}]

InitNeighbors ==
    /\ requests = <<>>
    /\ groups = <<>>
    /\ notifs = <<>>
    /\ drivers = [d \in DriverIds |-> VerifiedDriver(IF d = "d1" THEN 1 ELSE 2)]
    /\ last_assigned_at = [d \in DriverIds |-> 0]
    /\ last = NoCall
    /\ pc = [w \in Workers |-> "idle"]
    /\ sess = [w \in Workers |-> IdleSession]
    /\ NoTrips
    /\ query = NoQuery
    /\ candidates = <<>>
    /\ matches = <<>>
    /\ earlier = <<>>
    /\ args \in [geohash : Keys,
                 library : [{Directions[i] : i \in 1..Len(Directions)} -> LibraryOutcomes]]
    /\ result = <<>>

\* a call get_geohash_neighbors(geohash)
GetGeohashNeighbors ==
    /\ result' = <<get_geohash_neighbors(args.geohash, args.library)>>
    /\ last' = Replied("get_geohash_neighbors", 0, "returned", 0)
    /\ UNCHANGED <<requests, groups, notifs, drivers, last_assigned_at, pc, sess, tripVars,
                   query, candidates, matches, earlier, args>>

NextNeighbors == GetGeohashNeighbors

SpecNeighbors == InitNeighbors /\ [][NextNeighbors]_vars

(***************************************************************************)
(* Properties checked under SpecNeighbors *)
(***************************************************************************)

\* the neighbour computation failed for some direction
ComputationFailed(library) == \E d \in DOMAIN library : library[d] = "raises"

MaxOpenRequests == 2

OpenDestinations == {<<"S">>, <<"r">>, <<"_">>}

OpenTimes ==
    {-TimeWindowHours - 1, -TimeWindowHours, TimeWindowHours, TimeWindowHours + 1}

GroupStatuses == {"pending_acceptance", "confirmed", "in_progress", "completed", "cancelled"}

\* the bodies of the admin's updates: a new status, or a pickup an hour later
GroupUpdates ==
    {<<(<<>>), status>> : status \in GroupStatuses} \cup {<<(<<1>>), Unset>>}

InitOpen == InitSeeded(1)

NextOpen ==
    \/ /\ Len(requests) < 1 + MaxOpenRequests
       /\ \E dest \in OpenDestinations, time \in OpenTimes :
              CreateRideRequest("u2", dest, time, TRUE)
    \/ \E g \in Ids(groups), body \in GroupUpdates :
           UpdateGroupedRide(g, body[1], body[2])

SpecOpen == InitOpen /\ [][NextOpen]_vars

(***************************************************************************)
(* Properties checked under SpecOpen *)
(***************************************************************************)

\* C28: autoGroup attaches a request only to a group whose destination
\* address contains the request's destination (case-insensitive), whose
\* pickup time lies within 6 hours before or after the request's requested
\* time (ends included), whose status is pending_acceptance or confirmed, and
\* which has a free seat; never to a group in status in_progress, completed
\* or cancelled, or outside the time window.
C28_AttachedOnlyToMatchingOpenGroup ==
    [][AutoGroupStep
       => \A g \in Ids(groups) :
              requests'[last'.req].grouped_ride_id = g
                  => /\ Contains(ToLower(groups[g].destination_address),
                                 ToLower(requests'[last'.req].destination_address))
                     /\ Abs(groups[g].pickup_time - requests'[last'.req].requested_time)
                            <= TimeWindowHours
                     /\ groups[g].status \in {"pending_acceptance", "confirmed"}
                     /\ groups[g].status \notin {"in_progress", "completed", "cancelled"}
                     /\ OccupiedSeats(requests, g) < groups[g].total_seats]_vars

(***************************************************************************)
(* SpecMerge: the admin's merges among the users' calls. One group with    *)
(* one free seat exists; requests for the same station and hour arrive,    *)
(* those not for a railway station staying pending, and the admin merges   *)
(* up to MaxMergeSize requests at a time into a group.                     *)
(***************************************************************************)
MaxMergeRequests == 2
MaxMergeSize == 2

InitMerge == InitSeeded(Len(SeedUsers) - 1)

NextMerge ==
    \/ /\ Len(requests) < Len(SeedUsers) - 1 + MaxMergeRequests
       /\ \E rail \in BOOLEAN : CreateRideRequest("u2", <<"s">>, 0, rail)
    \/ \E g \in Ids(groups), ids \in SUBSET Ids(requests) :
           /\ Cardinality(ids) \in 1..MaxMergeSize
           /\ MergeRequestsToTrip(g, ids)
    \/ \E n \in PendingNotifications : AcceptRide(n)
    \/ \E n \in PendingNotifications : RejectRide(n)

SpecMerge == InitMerge /\ [][NextMerge]_vars

(***************************************************************************)
(* Properties checked under SpecMerge *)
(***************************************************************************)

\* C30: the seat invariant occupiedSeats(group) <= group.total_seats also
\* holds when the admin's merges of pending requests into an existing group
\* are interleaved with autoGroup, accept and reject calls.
C30_SeatInvariantWithMerges ==
    \A g \in Ids(groups) : groups[g].total_seats - OccupiedSeats(requests, g) >= 0

\* C11: when two autoGroup calls run their creation phase at the same time,
\* no increment is lost: once both have committed, every driver's
\* assigned_rides_count is the number of groups assigned to that driver.
C11_NoIncrementLost ==
    (\A w \in Workers : pc[w] = "idle")
        => \A d \in DriverIds :
               drivers[d].assigned_rides_count
                   = Cardinality({g \in Ids(groups) : groups[g].driver_id = d})

\* every request is pending without a group, or grouped in a stored group
\* with as many ride assignments to its user as the user has requests there;
\* and every stored group holds a request
NoPartialState(reqs, grps, nts) ==
    /\ \A r \in Ids(reqs) :
           \/ reqs[r].status = "pending" /\ reqs[r].grouped_ride_id = 0
           \/ /\ reqs[r].status = "grouped"
              /\ reqs[r].grouped_ride_id \in Ids(grps)
              /\ Cardinality(RideAssignments(nts, reqs[r].user_id, reqs[r].grouped_ride_id))
                   = Cardinality({x \in RideRequestsOf(reqs, reqs[r].grouped_ride_id) :
                                     reqs[x].user_id = reqs[r].user_id})
    /\ \A g \in Ids(grps) : RideRequestsOf(reqs, g) # {}
    /\ \A n \in Ids(nts) :
           \E r \in RideRequestsOf(reqs, nts[n].grouped_ride_id) :
               reqs[r].user_id = nts[n].user_id

MaxPartyRequests == 3

\* RideRequestBase.passenger_count: Field(1, ge=1, le=8)
MaxPassengerCount == 8

PartySizes == {1, TotalSeats - 1, MaxPassengerCount}

NextParty ==
    \/ /\ Len(requests) < MaxPartyRequests
       /\ \E u \in Users, n \in PartySizes : CreateRideRequestFor(u, <<"s">>, 0, TRUE, n)
    \/ \E n \in PendingNotifications : AcceptRide(n)
    \/ \E n \in PendingNotifications : RejectRide(n)

SpecParty == Init /\ [][NextParty]_vars

(***************************************************************************)
(* Properties checked under SpecParty *)
(***************************************************************************)

\* the sum of passenger_count over the requests rs
RECURSIVE Passengers(_, _)
Passengers(reqs, rs) ==
    IF rs = {} THEN 0
    ELSE LET r == CHOOSE x \in rs : TRUE
         IN  reqs[r].passenger_count + Passengers(reqs, rs \ {r})

\* the passengers of the requests attached to g that are neither rejected
\* nor cancelled
SeatedPassengers(reqs, g) ==
    Passengers(reqs, {r \in RideRequestsOf(reqs, g) :
                         reqs[r].status \notin {"rejected", "cancelled"}})

\* C33: for every group, the sum of passenger_count over its attached
\* requests that are neither rejected nor cancelled is at most total_seats.
C33_PassengersWithinSeats ==
    \A g \in Ids(groups) : SeatedPassengers(requests, g) <= groups[g].total_seats

(***************************************************************************)
(* SpecQueue: the driver queue with a fixed set of eligible drivers. An    *)
(* admin has verified some of the drivers, in one order or the other, and  *)
(* touches none of them afterwards; the ride requests ask for hours far    *)
(* enough apart that a request for a new hour needs a group of its own.    *)
(***************************************************************************)
MaxQueueRequests == 4

\* drivers d1 and d2 as the admin left them: verified or not, d1 updated
\* before d2 or after
QueueDrivers ==
    {[d \in DriverIds |->
         IF d \in verified
         THEN VerifiedDriver(IF (d = "d1") = first THEN 1 ELSE 2)
         ELSE NewDriver] : verified \in SUBSET DriverIds \ {{}}, first \in BOOLEAN}

InitQueue ==
    /\ requests = <<>>
    /\ groups = <<>>
    /\ notifs = <<>>
    /\ drivers \in QueueDrivers
    /\ last_assigned_at = [d \in DriverIds |-> 0]
    /\ last = NoCall
    /\ pc = [w \in Workers |-> "idle"]
    /\ sess = [w \in Workers |-> IdleSession]
    /\ NoTrips
    /\ NoSearch

QueueTimes == {(2 * TimeWindowHours + 1) * k : k \in 0..(MaxQueueRequests - 1)}

NextQueue ==
    /\ Len(requests) < MaxQueueRequests
    /\ \E u \in Users, t \in QueueTimes : CreateRideRequest(u, <<"s">>, t, TRUE)

SpecQueue == InitQueue /\ [][NextQueue]_vars

(***************************************************************************)
(* Properties checked under SpecQueue *)
(***************************************************************************)

\* C34: with a fixed set of eligible drivers that start with the same
\* assigned_rides_count, after any sequence of autoGroup calls run one at a
\* time the counts of any two eligible drivers differ by at most 1.
C34_EligibleCountsDifferByAtMostOne ==
    \A d, e \in DriverIds :
        (Eligible(drivers[d]) /\ Eligible(drivers[e]))
            => Abs(drivers[d].assigned_rides_count - drivers[e].assigned_rides_count) <= 1

\* C34 witness: two eligible drivers have shared three new groups, two for
\* one and one for the other
C34_Witness ==
    /\ \A d \in DriverIds : Eligible(drivers[d])
    /\ Len(groups) = 3
    /\ \E d, e \in DriverIds :
           /\ drivers[d].assigned_rides_count = 2
           /\ drivers[e].assigned_rides_count = 1
    /\ last.outcome = "new_trip_created"

(***************************************************************************)
(* routes/trips.py: the trips drivers offer. A driver creates a trip and   *)
(* updates it, users ask to join it and the driver approves them. Of a     *)
(* trip row the seats and the status are kept, of an update body the       *)
(* fields total_seats and status.                                          *)
(***************************************************************************)

\* create_trip (POST /api/trips) by a driver
CreateDriverTrip(driver, total_seats) ==
    /\ trips' = Append(trips, [driver_id |-> driver,
                               total_seats |-> total_seats,
                               available_seats |-> total_seats,
                               status |-> "active"])
    /\ last' = Replied("create_trip", Len(trips) + 1, "201", 0)
    /\ UNCHANGED <<trip_members, requests, groups, notifs, drivers, last_assigned_at,
                   pc, sess, rankVars>>

\* TripMember.status == MemberStatus.APPROVED, counted with .count()
ApprovedMembers(members, t) ==
    {m \in Ids(members) : members[m].trip_id = t /\ members[m].status = "approved"}

\* update_trip (PATCH /api/trips/{id}) by a driver: the fields the body sets
\* are written to the row as they are, Unset standing for a field left
\* out; available_seats is recomputed when total_seats is set
UpdateTrip(t, driver, total_seats, status) ==
    /\ t \in Ids(trips)
    /\ IF trips[t].driver_id # driver
       THEN /\ last' = Replied("update_trip", t, "403", 0)
            /\ UNCHANGED trips
       ELSE LET written == [trips[t] EXCEPT
                               !.total_seats = IF total_seats = <<>> THEN @
                                               ELSE total_seats[1],
                               !.status = IF status = Unset THEN @ ELSE status]
                approved_members == Cardinality(ApprovedMembers(trip_members, t))
            IN  /\ trips' = [trips EXCEPT ![t] =
                                 IF total_seats = <<>> THEN written
                                 ELSE [written EXCEPT !.available_seats =
                                           written.total_seats - approved_members]]
                /\ last' = Replied("update_trip", t, "200", 0)
    /\ UNCHANGED <<trip_members, requests, groups, notifs, drivers, last_assigned_at,
                   pc, sess, rankVars>>

\* join_trip (POST /api/trips/{id}/join) by a user, who is never the driver
JoinTrip(t, user, seats_requested) ==
    /\ t \in Ids(trips)
    /\ IF trips[t].status # "active" \/ trips[t].available_seats < seats_requested
       THEN /\ last' = Replied("join_trip", t, "400", 0)
            /\ UNCHANGED trip_members
       ELSE IF \E m \in Ids(trip_members) :
                   trip_members[m].trip_id = t /\ trip_members[m].user_id = user
       THEN /\ last' = Replied("join_trip", t, "409", 0)
            /\ UNCHANGED trip_members
       ELSE /\ trip_members' = Append(trip_members,
                                      [trip_id |-> t, user_id |-> user,
                                       seats_requested |-> seats_requested,
                                       status |-> "pending"])
            /\ last' = Replied("join_trip", t, "201", 0)
    /\ UNCHANGED <<trips, requests, groups, notifs, drivers, last_assigned_at,
                   pc, sess, rankVars>>

\* approve_member (POST /api/trips/{id}/members/{member_id}/approve) by a driver
ApproveMember(t, m, driver) ==
    /\ t \in Ids(trips)
    /\ m \in Ids(trip_members)
    /\ IF trips[t].driver_id # driver
       THEN /\ last' = Replied("approve_member", m, "403", 0)
            /\ UNCHANGED tripVars
       ELSE IF trip_members[m].trip_id # t
       THEN /\ last' = Replied("approve_member", m, "404", 0)
            /\ UNCHANGED tripVars
       ELSE IF \/ trip_members[m].status # "pending"
               \/ trips[t].available_seats < trip_members[m].seats_requested
       THEN /\ last' = Replied("approve_member", m, "400", 0)
            /\ UNCHANGED tripVars
       ELSE LET available_seats ==
                    trips[t].available_seats - trip_members[m].seats_requested
            IN  /\ trip_members' = [trip_members EXCEPT ![m].status = "approved"]
                /\ trips' = [trips EXCEPT
                                 ![t].available_seats = available_seats,
                                 ![t].status = IF available_seats = 0 THEN "full" ELSE @]
                /\ last' = Replied("approve_member", m, "200", 0)
    /\ UNCHANGED <<requests, groups, notifs, drivers, last_assigned_at, pc, sess, rankVars>>

(***************************************************************************)
(* SpecTrips: drivers create trips and update them, users ask to join and  *)
(* drivers approve, in any order and with any of the bodies below.         *)
(***************************************************************************)
MaxTrips == 1

\* TripBase.total_seats: Field(..., ge=1, le=8)
TripSeats == {1, 2, 4}

\* TripMemberBase.seats_requested: Field(1, ge=1, le=4)
SeatsRequested == {1, 2}

\* TripUpdate bodies: total_seats left out or set, status left out or set
TripUpdates ==
    ({<<>>} \cup {<<n>> : n \in TripSeats}) \X {Unset, "active", "cancelled"}

InitTrips == Init

NextTrips ==
    \/ /\ Len(trips) < MaxTrips
       /\ \E d \in DriverIds, n \in TripSeats : CreateDriverTrip(d, n)
    \/ \E t \in Ids(trips), d \in DriverIds, body \in TripUpdates :
           UpdateTrip(t, d, body[1], body[2])
    \/ \E t \in Ids(trips), u \in Users, n \in SeatsRequested : JoinTrip(t, u, n)
    \/ \E t \in Ids(trips), m \in Ids(trip_members), d \in DriverIds :
           ApproveMember(t, m, d)

SpecTrips == InitTrips /\ [][NextTrips]_vars

(***************************************************************************)
(* Properties checked under SpecTrips *)
(***************************************************************************)

\* the sum of seats_requested over the members ms
RECURSIVE SeatsOf(_, _)
SeatsOf(members, ms) ==
    IF ms = {} THEN 0
    ELSE LET m == CHOOSE x \in ms : TRUE
         IN  members[m].seats_requested + SeatsOf(members, ms \ {m})

\* C38: for every trip a driver created, after any sequence of join,
\* approve and update-trip calls, 0 <= available_seats <= total_seats and
\* available_seats is total_seats minus the seats requested by the approved
\* members.
C38_AvailableSeatsMatchApprovedMembers ==
    \A t \in Ids(trips) :
        /\ 0 <= trips[t].available_seats
        /\ trips[t].available_seats <= trips[t].total_seats
        /\ trips[t].available_seats =
               trips[t].total_seats
               - SeatsOf(trip_members, ApprovedMembers(trip_members, t))

====
